---- MODULE Spec2Model ----
(***************************************************************************)
(* Vizard: the wallet session (VizardWallet), the SDK facade (VizardSdk)   *)
(* and the facade's transaction queue, as a state machine.                 *)
(*                                                                         *)
(* An async function is a process: its position (pc) is the await it is    *)
(* suspended at, and one action runs the synchronous code from the         *)
(* completion of that await up to the next await.  Consecutive awaits      *)
(* between which the code reads and writes no field of the session are one *)
(* position.  The outcome of an awaited external call (signer, node,       *)
(* proving backend) is chosen with \E.                                     *)
(***************************************************************************)
EXTENDS Integers, Sequences, FiniteSets, TLC

(* ---------------------------- bounds ----------------------------------- *)
\* connect() invocations in one behaviour
MaxConnects == 3
\* disconnect() invocations in one behaviour
MaxDisconnects == 1
\* onStateChange() subscriptions in one behaviour
MaxSubscribes == 1

\* mintTokens() / sendPublicTransfer() invocations in one behaviour
MaxEnqueues == 3

\* contractAt() / getPublicBalance() / syncPrivateState() invocations in one
\* behaviour
MaxFacadeCalls == 2

\* onStateChange calls in one observed behaviour
MaxListenerSubscribes == 3

\* calls of each kind made on the second VizardSdk instance
MaxPeerCalls == 1

\* connect() calls that may be in flight at the same time (call identities)
Calls == {1, 2}
\* subscribers of the connection state
Listeners == {"l1", "l2"}
\* addresses the signer may return from eth_requestAccounts
Accounts == {<<"0x", "A", "1">>}
\* the same address as providers may write it: checksummed and lower-case
AccountForms == {<<"0x", "A", "1">>, <<"0x", "a", "1">>}

\* the token contract the queued operations address
Token == <<"0x", "T">>
\* the address strings callers pass for it: the same address in two letter cases
AddressInputs == {<<"0x", "T">>, <<"0x", "t">>}

\* null / undefined: every nullable value is a tuple, null the empty one
Null == <<>>

(* ------------------------- values and helpers -------------------------- *)
\* a thrown value: an Error instance carries a message; any other thrown
\* value (a string, a plain provider object) is not `instanceof Error`
Err(m) == [isError |-> TRUE, message |-> m]
NonErr(m) == [isError |-> FALSE, message |-> m]
NoErr == [isError |-> FALSE, message |-> ""]

MsgNoMetaMask == "MetaMask not detected. Please install MetaMask."
MsgNoAccounts == "No accounts available. Please unlock MetaMask."
MsgUserRejected == "User rejected the request."
MsgNodeFailed == "Failed to connect to Aztec node"
MsgNotInitialized == "Not initialized"
MsgNullDeref == "TypeError: Cannot read properties of null"
MsgBbFailed == "bb.js init failed"
MsgWalletCreate == "TestWallet.create failed"
MsgFpcCheck == "SponsoredFPC on-chain check failed"
MsgSender == "registerSender failed"
MsgMetadata == "getContractMetadata failed"
MsgDeployTimeout == "deploy confirmation timeout"

ConnectionState(s, m) == [status |-> s, message |-> m]
NotDelivered == ConnectionState("none", "")
DisconnectedInit == ConnectionState("disconnected", "Not connected")

\* a catch block that reads error.message whatever was thrown
CatchMessageRaw(e) == e.message

\* catch block of connect(): error instanceof Error ? error.message : 'Connection failed'
CatchMessage(e) == IF e.isError THEN e.message ELSE "Connection failed"

\* a sync decision that forgets the default: config.autoSync === true
ShouldSyncStrict(autoSync) == autoSync = "true"

\* config.autoSync ?? true
ShouldSync(autoSync) == IF autoSync = "unset" THEN TRUE ELSE autoSync = "true"

\* a deployment decision that ignores the metadata
ShouldDeployAlways(isContractInitialized) == TRUE

\* setupAccount lines 324-327: deploy unless the metadata says initialized
ShouldDeploy(isContractInitialized) == ~isContractInitialized

\* a sender registration whose failure is not caught
RegisterSenderRethrow(senderOk) == IF senderOk THEN "continue" ELSE "throw"

\* setupAccount lines 365-370: try { registerSender } catch { warn }
RegisterSenderCatch(senderOk) == "continue"

\* setupAccount lines 277-283: try { getContract(fpc) } catch { warn }; a
\* missing instance only warns (284-288)
FpcCheckCatch(outcome) == "continue"

\* AztecAddress.fromString(address).toString().toLowerCase(): the key of an
\* address in registeredContracts
AddressKey(a) == <<a[1], IF a[2] = "T" THEN "t" ELSE a[2]>>

\* the private key behind an address, however the address is written
SignerKey(a) == <<"key", a[3]>>

\* the signature personal_sign returns for message m signed by the key of
\* address a; n is the nonce the signer used
Signature(a, m, n) == <<"sig", SignerKey(a), m, n>>

\* nonces a signer may use: a deterministic signer always the same one
Nonces(deterministic) == IF deterministic THEN {0} ELSE {0, 1}

DERIVATION_VERSION == "vizard-v1"

\* keccak256(concat([toBytes(signature), toBytes(tag)])) (lines 102-137)
DeriveSecretKey(signature) == <<"keccak256", signature, "vizard:secret">>
DeriveSalt(signature) == <<"keccak256", signature, "vizard:salt">>
DeriveSigningKey(signature) == <<"keccak256", signature, "vizard:signing">>

\* DerivedKeys returned by deriveAztecKeys (lines 66-77):
\* <<secretKey, salt, signingPrivateKey, evmAddress, signature>>
DeriveAztecKeys(evmAddress, signature) ==
    <<DeriveSecretKey(signature), DeriveSalt(signature), DeriveSigningKey(signature),
      evmAddress, signature>>

\* the fields of DerivedKeys that fix the account
SecretKey(k) == k[1]
Salt(k) == k[2]
SigningPrivateKey(k) == k[3]

\* accountManager.address: fixed by secret key, salt and signing key
AccountAddress(k) == <<"aztec", SecretKey(k), Salt(k), SigningPrivateKey(k)>>

TestWallet(n) == <<"TestWallet", n>>
AztecNode == <<"AztecNode">>
SponsoredFeePaymentMethod == <<"SponsoredFeePaymentMethod">>

\* bbThreads of the configuration: not given, or a number
ThreadCounts == {Null, <<1>>, <<4>>}

\* a retry that is single-threaded whatever was configured
RetryThreadsOne(threads) == <<1>>

\* `threads: options.threads ?? 1` (initBarretenberg line 125)
RetryThreads(threads) == IF threads = Null THEN <<1>> ELSE threads

\* AztecAddress.ZERO
AztecAddressZero == <<"0x", "0", "0">>

\* deployment options that leave the fee method out
DeployOptsNoFee(paymentMethod) == <<[from |-> AztecAddressZero, fee |-> Null]>>

\* deployOpts of setupAccount, lines 330-335: `from: AztecAddress.ZERO` and,
\* when paymentMethod is set, `fee: { paymentMethod }` (Null: no fee entry)
DeployOpts(paymentMethod) == <<[from |-> AztecAddressZero, fee |-> paymentMethod]>>

\* calls a connect() issues to its collaborators
ZeroCounts ==
    [requestAccounts |-> 0, personalSign |-> 0, nodeClient |-> 0, deploySend |-> 0,
     bbInit |-> 0, feeResolve |-> 0]

\* `if (!window.ethereum)`: a check that is skipped
SignerAssumed(ethereum) == TRUE

\* `if (!window.ethereum)` (connect line 156, deriveAztecKeys line 53)
SignerPresent(ethereum) == ethereum

\* the fields of a VizardSdk and of its VizardWallet after construction
\* (VizardSdk lines 31-35, VizardWallet lines 56-66), and the calls made on it
FreshSdk ==
    [connectionState |-> DisconnectedInit,
     accountWallet |-> Null, registeredContracts |-> {}, txQueue |-> <<"peer", 0>>,
     ops |-> <<>>, call |-> "idle"]

\* a deriveAztecKeys call that has not been made
FreshDerive == [pc |-> "idle", evm |-> Null, personalSign |-> 0, err |-> NoErr, keys |-> Null]

FreshCall ==
    [pc |-> "idle", evm |-> Null, keys |-> Null, tw |-> Null, pm |-> Null, address |-> Null,
     err |-> NoErr, result |-> Null, trace |-> <<>>,
     metaInit |-> "unknown", waited |-> FALSE,
     senderFailed |-> FALSE, fpcCheck |-> "none", bbTried |-> <<>>, bbThreads |-> <<>>,
     message |-> Null, derived |-> Null, counts |-> ZeroCounts, io |-> <<>>,
     deployOpts |-> Null, interrupted |-> Null]

InFlight == {"accounts", "derive", "pxe", "setup", "bbInit", "bbRetry", "l1",
             "fpc", "feeResolve", "metadata", "deployWait", "sender", "sync"}
Settled == {"resolved", "rejected"}

(* ------------------------------ state ---------------------------------- *)
VARIABLES
    cfg,                \* VizardSdkConfig: feeMode, autoSync, bbBackend, bbThreads
    hasEthereum,        \* window.ethereum is present
    deployed,           \* network: addresses whose account contract is initialized
    signer,             \* EVM signer: addresses eth_requestAccounts may return first,
                        \* and whether it signs deterministically
    node, accountWallet, testWalletInstance, derivedKeys, evmAddress,
    aztecAddress, feePaymentMethod, bbInitialized,   \* VizardWallet fields
    connectionState, stateListeners,
    delivered,          \* state each subscribed listener was last called with
    sdkFeePaymentMethod,\* VizardSdk.feePaymentMethod
    call,               \* the connect() calls: position and locals
    nextHandle,         \* identity of the next TestWallet object created
    fpcRegistered,      \* TestWallet objects getSponsoredPaymentMethod ran on
    established,        \* handles connect() has resolved with since the last disconnect()
    registeredContracts,\* VizardSdk.registeredContracts
    ops,                \* the operations passed to enqueueTx, in order: position and locals
    txQueue,            \* VizardSdk.txQueue: the operation whose settling it follows (0: none)
    began,              \* the operations whose body has begun, in order
    fcall,              \* the facade calls made outside the queue, in order: position and locals
    walletContracts,    \* <<TestWallet, address>>: registerContract completed on that wallet
    completedKeys,      \* keys a registering contractAt resolved for since the last disconnect()
    published,          \* observer: every state setState was called with, in order
    received,           \* observer: states each listener was called with since it last subscribed
    subscribedAt,       \* observer: length of published when the listener last subscribed
    derivations,        \* observer: the key sets deriveAztecKeys returned, in order
    deriveCall,         \* a deriveAztecKeys call made by the application itself
    peer,               \* a second VizardSdk instance of the same page
    budget              \* invocations the callers may still make, calls in flight at once

walletVars == <<node, accountWallet, testWalletInstance, derivedKeys, evmAddress,
                aztecAddress, feePaymentMethod, bbInitialized>>
envVars == <<cfg, hasEthereum, deployed, signer, derivations, deriveCall, peer>>
listenerVars == <<stateListeners>>
queueVars == <<registeredContracts, ops, txQueue, began>>
facadeVars == <<fcall, walletContracts, completedKeys>>
logVars == <<published, received, subscribedAt>>
vars == <<cfg, hasEthereum, deployed, signer, node, accountWallet, testWalletInstance,
          derivedKeys, evmAddress, aztecAddress, feePaymentMethod, bbInitialized,
          connectionState, stateListeners, delivered, sdkFeePaymentMethod, call,
          nextHandle, fpcRegistered, established, registeredContracts, ops, txQueue,
          began, fcall, walletContracts, completedKeys, published, received,
          subscribedAt, derivations, deriveCall, peer, budget>>

\* a derivation message that carries the time of the request
CreateDerivationMessageStamped(address) ==
    <<"Vizard Aztec Wallet", "Version:", DERIVATION_VERSION, "Address:", address,
      "Time:", budget.connect>>

\* createDerivationMessage (derivation lines 86-96): the version and the
\* address exactly as it was passed in
CreateDerivationMessage(address) ==
    <<"Vizard Aztec Wallet", "Version:", DERIVATION_VERSION, "Address:", address>>

\* the keys address a derives with a deterministic signer
DeriveKeys(a) == DeriveAztecKeys(a, Signature(a, CreateDerivationMessage(a), 0))

\* a signer that returns one of these addresses and signs deterministically
Deterministic(accounts) == [accounts |-> accounts, deterministic |-> TRUE]

Configs ==
    [feeMode : {"sponsored", "none"}, autoSync : {"true", "false", "unset"},
     bbBackend : {"wasm-worker", "wasm", "unset"},
                 bbThreads : {Null}]

\* the state after `new VizardSdk(config)`
Constructed ==
    /\ node = Null /\ accountWallet = Null /\ testWalletInstance = Null
    /\ derivedKeys = Null /\ evmAddress = Null /\ aztecAddress = Null
    /\ feePaymentMethod = Null /\ bbInitialized = FALSE
    /\ connectionState = DisconnectedInit
    /\ stateListeners = {}
    /\ delivered = [l \in Listeners |-> NotDelivered]
    /\ sdkFeePaymentMethod = Null
    /\ call = [c \in Calls |-> FreshCall]
    /\ nextHandle = 1
    /\ fpcRegistered = {}
    /\ established = {}
    /\ registeredContracts = {}
    /\ ops = <<>>
    /\ txQueue = 0
    /\ began = <<>>
    /\ fcall = <<>>
    /\ walletContracts = {}
    /\ completedKeys = {}
    /\ published = <<>>
    /\ received = [l \in Listeners |-> <<>>]
    /\ subscribedAt = [l \in Listeners |-> 0]
    /\ derivations = <<>>
    /\ deriveCall = FreshDerive
    /\ peer = FreshSdk

Init ==
    /\ cfg \in Configs
    /\ hasEthereum \in BOOLEAN
    /\ signer = Deterministic(Accounts)
    /\ deployed \in SUBSET {AccountAddress(DeriveKeys(a)) : a \in Accounts}
    /\ Constructed
    /\ budget = [connect |-> MaxConnects, disconnect |-> MaxDisconnects,
                 subscribe |-> MaxSubscribes, inFlight |-> 1, enqueue |-> 0,
                 facade |-> 0, observe |-> FALSE]

(* ------------------------- VizardWallet.setState ----------------------- *)
\* a broadcast that stops after the first listener
NotifiedFirstOnly(listeners) ==
    IF listeners = {} THEN {} ELSE {CHOOSE l \in listeners : TRUE}

\* setState line 83: this.stateListeners.forEach(listener => listener(state))
Notified(listeners) == listeners

\* setState: store the state and call every subscribed listener with it
SetState(state) ==
    /\ connectionState' = state
    /\ delivered' = [l \in Listeners |->
                        IF l \in Notified(stateListeners) THEN state ELSE delivered[l]]
    /\ published' = IF budget.observe THEN Append(published, state) ELSE published
    /\ received' = IF budget.observe
                   THEN [l \in Listeners |->
                            IF l \in Notified(stateListeners) THEN Append(received[l], state)
                            ELSE received[l]]
                   ELSE received
    /\ UNCHANGED subscribedAt

\* a subscription that replays every state published so far
Replay(log, current) == IF log = <<>> THEN <<current>> ELSE log

\* onStateChange line 76: the listener is called once, with connectionState
LateJoin(log, current) == <<current>>

\* onStateChange: add the listener and call it with the current state
OnStateChange(l) ==
    /\ budget.subscribe > 0
    /\ UNCHANGED <<queueVars, facadeVars>>
    /\ stateListeners' = stateListeners \cup {l}
    /\ delivered' = [delivered EXCEPT ![l] = connectionState]
    /\ received' = IF budget.observe
                   THEN [received EXCEPT ![l] = LateJoin(published, connectionState)]
                   ELSE received
    /\ subscribedAt' = IF budget.observe
                       THEN [subscribedAt EXCEPT ![l] = Len(published)]
                       ELSE subscribedAt
    /\ UNCHANGED published
    /\ budget' = [budget EXCEPT !.subscribe = @ - 1]
    /\ UNCHANGED <<envVars, walletVars, connectionState, sdkFeePaymentMethod, call,
                   nextHandle, fpcRegistered, established>>

\* an unsubscribe function that leaves the set as it is
DeleteNothing(listeners, l) == listeners

\* onStateChange line 78: this.stateListeners.delete(listener)
Delete(listeners, l) == listeners \ {l}

\* the function onStateChange returned: remove the listener
Unsubscribe(l) ==
    /\ l \in stateListeners
    /\ UNCHANGED <<queueVars, facadeVars>>
    /\ stateListeners' = Delete(stateListeners, l)
    /\ delivered' = [delivered EXCEPT ![l] = NotDelivered]
    /\ UNCHANGED logVars
    /\ UNCHANGED <<envVars, walletVars, connectionState, sdkFeePaymentMethod,
                   call, nextHandle, fpcRegistered, established, budget>>

(* ------------------------ VizardWallet.connect ------------------------- *)
\* a call to a collaborator is counted and logged in the order it is issued
Count(rec, f) == [rec EXCEPT !.counts[f] = @ + 1, !.io = Append(@, f)]

\* eth_accounts followed by eth_requestAccounts
RequestAccountsTwice(rec) == Count(Count(rec, "requestAccounts"), "requestAccounts")

\* window.ethereum.request({ method: 'eth_requestAccounts' }), lines 160-162
RequestAccounts(rec) == Count(rec, "requestAccounts")
Goto(c, rec) == call' = [call EXCEPT ![c] = rec]
Quiet == UNCHANGED <<connectionState, delivered, logVars>>

\* catch (error) of connect(), lines 202-206: publish disconnected with the
\* message, re-throw
Fail(c, rec, e) ==
    /\ call' = [call EXCEPT ![c] = [rec EXCEPT !.pc = "rejected", !.err = e,
                                       !.trace = Append(rec.trace, "disconnected")]]
    /\ SetState(ConnectionState("disconnected", CatchMessage(e)))

\* wallet.connect() returned `handle`; VizardSdk.connect resumes: in sponsored
\* mode with no fee method on the facade and a wallet present it runs
\* getSponsoredPaymentMethod (which swallows its own failures), then returns
\* the account.
SdkConnectReturn(c, rec, handle) ==
    /\ established' = established \cup {handle}
    /\ IF cfg.feeMode = "sponsored" /\ sdkFeePaymentMethod = Null /\ handle # Null
       THEN /\ sdkFeePaymentMethod' = SponsoredFeePaymentMethod
            /\ fpcRegistered' = fpcRegistered \cup {handle}
            /\ Goto(c, [Count(rec, "feeResolve") EXCEPT !.pc = "resolved",
                                                        !.result = handle])
       ELSE /\ UNCHANGED <<sdkFeePaymentMethod, fpcRegistered>>
            /\ Goto(c, [rec EXCEPT !.pc = "resolved", !.result = handle])

\* a new connect() call takes the lowest free call identity
FreeCall(c) ==
    /\ c <= budget.inFlight
    /\ call[c].pc \in {"idle"} \cup Settled
    /\ \A d \in Calls : call[d].pc \in {"idle"} \cup Settled => c <= d

\* connect(), lines 147-160: return the cached handle, or publish connecting
\* and request the accounts
ConnectEnter(c) ==
    /\ FreeCall(c)
    /\ UNCHANGED <<queueVars, facadeVars>>
    /\ budget.connect > 0
    /\ budget' = [budget EXCEPT !.connect = @ - 1]
    /\ UNCHANGED <<envVars, walletVars, listenerVars, nextHandle>>
    /\ IF accountWallet # Null
       THEN /\ SdkConnectReturn(c, FreshCall, accountWallet)
            /\ Quiet
       ELSE LET rec == [FreshCall EXCEPT !.trace = <<"connecting">>] IN
            /\ UNCHANGED <<sdkFeePaymentMethod, fpcRegistered, established>>
            /\ IF ~SignerPresent(hasEthereum)
               THEN Fail(c, rec, Err(MsgNoMetaMask))
               ELSE /\ Goto(c, [RequestAccounts(rec) EXCEPT !.pc = "accounts"])
                    /\ SetState(ConnectionState("connecting", "Connecting to MetaMask..."))

\* eth_requestAccounts settled (lines 160-174, deriveAztecKeys 51-64): store
\* accounts[0], publish deriving_keys, ask for the signature
AccountsStep(c) ==
    /\ call[c].pc = "accounts"
    /\ UNCHANGED <<queueVars, facadeVars>>
    /\ UNCHANGED <<envVars, node, accountWallet, testWalletInstance, derivedKeys,
                   aztecAddress, feePaymentMethod, bbInitialized, listenerVars,
                   sdkFeePaymentMethod, nextHandle, fpcRegistered, established, budget>>
    /\ \/ \E e \in {Err(MsgUserRejected), NonErr(MsgUserRejected), Err(MsgNoAccounts)} :
            /\ Fail(c, call[c], e)
            /\ UNCHANGED evmAddress
       \/ \E a \in signer.accounts :
            LET rec == [call[c] EXCEPT !.trace = Append(@, "deriving_keys"),
                                       !.message = CreateDerivationMessage(a)] IN
            /\ evmAddress' = a
            /\ IF ~SignerPresent(hasEthereum)
               THEN Fail(c, rec, Err(MsgNoMetaMask))
               ELSE /\ Goto(c, [Count(rec, "personalSign") EXCEPT !.pc = "derive",
                                                                 !.evm = a])
                    /\ SetState(ConnectionState("deriving_keys",
                                                "Sign to derive your Aztec keys..."))

\* personal_sign settled (deriveAztecKeys 61-78, connect 174-180): store the
\* keys, publish initializing_pxe, create the node client
DeriveStep(c) ==
    /\ call[c].pc = "derive"
    /\ UNCHANGED <<queueVars, facadeVars>>
    /\ UNCHANGED <<cfg, hasEthereum, deployed, signer, deriveCall, peer, node, accountWallet,
                   testWalletInstance, evmAddress,
                   aztecAddress, feePaymentMethod, bbInitialized, listenerVars,
                   sdkFeePaymentMethod, nextHandle, fpcRegistered, established, budget>>
    /\ \/ /\ Fail(c, call[c], Err(MsgUserRejected))
          /\ UNCHANGED <<derivedKeys, derivations>>
       \/ \E n \in Nonces(signer.deterministic) :
          LET keys == DeriveAztecKeys(call[c].evm,
                                      Signature(call[c].evm, call[c].message, n)) IN
          /\ derivedKeys' = keys
          /\ derivations' = IF budget.observe THEN Append(derivations, keys)
                            ELSE derivations
          /\ Goto(c, [Count(call[c], "nodeClient") EXCEPT
                         !.pc = "pxe", !.trace = Append(@, "initializing_pxe"),
                         !.derived = keys])
          /\ SetState(ConnectionState("initializing_pxe", "Connecting to Aztec node..."))

\* the top of setupAccount (lines 216-221), called from connect() line 185
SetupEnter(c, rec, nodeNow, keysNow) ==
    IF nodeNow = Null \/ keysNow = Null
    THEN Fail(c, rec, Err(MsgNotInitialized))
    ELSE /\ Goto(c, [rec EXCEPT !.pc = "setup"])
         /\ SetState(ConnectionState("registering", "Registering Aztec account..."))

\* connectToPXE settled (BrowserPXE 19-36, connect 180-185): store the node,
\* publish registering, enter setupAccount
PxeStep(c) ==
    /\ call[c].pc = "pxe"
    /\ UNCHANGED <<queueVars, facadeVars>>
    /\ UNCHANGED <<envVars, accountWallet, testWalletInstance, derivedKeys, evmAddress,
                   aztecAddress, feePaymentMethod, bbInitialized, listenerVars,
                   sdkFeePaymentMethod, nextHandle, fpcRegistered, established, budget>>
    /\ \/ /\ Fail(c, call[c], Err(MsgNodeFailed))
          /\ UNCHANGED node
       \/ /\ node' = AztecNode
          /\ SetupEnter(c, [call[c] EXCEPT !.trace = Append(@, "registering")],
                        AztecNode, derivedKeys)

\* setupAccount line 255, reached when initBarretenberg has returned
L1Enter(c, rec) ==
    IF node = Null
    THEN Fail(c, rec, Err(MsgNullDeref))
    ELSE Goto(c, [rec EXCEPT !.pc = "l1"]) /\ Quiet

\* import of TestWallet settled (lines 221-250 and 98-118): initBarretenberg
\* returns at once when the backend is initialized, else starts the first
\* initSingleton
SetupStep(c) ==
    /\ call[c].pc = "setup"
    /\ UNCHANGED <<queueVars, facadeVars>>
    /\ UNCHANGED <<envVars, walletVars, listenerVars, sdkFeePaymentMethod, nextHandle,
                   fpcRegistered, established, budget>>
    /\ IF bbInitialized
       THEN L1Enter(c, call[c])
       ELSE Goto(c, [Count(call[c], "bbInit") EXCEPT !.pc = "bbInit",
                                                     !.bbTried = <<cfg.bbBackend>>,
                                                     !.bbThreads = <<cfg.bbThreads>>]) /\ Quiet

\* a fallback that is tried whatever backend was configured
RetriesAlways(backend) == TRUE

\* initBarretenberg line 122: the catch retries only when the options of the
\* failed attempt asked for the worker backend
RetriesAfterFailure(backend) == backend = "wasm-worker"

\* first Barretenberg.initSingleton settled (lines 117-135)
BbInitStep(c) ==
    /\ call[c].pc = "bbInit"
    /\ UNCHANGED <<queueVars, facadeVars>>
    /\ UNCHANGED <<envVars, node, accountWallet, testWalletInstance, derivedKeys,
                   evmAddress, aztecAddress, feePaymentMethod, listenerVars,
                   sdkFeePaymentMethod, nextHandle, fpcRegistered, established, budget>>
    /\ \/ /\ bbInitialized' = TRUE
          /\ L1Enter(c, call[c])
       \/ IF RetriesAfterFailure(cfg.bbBackend)
          THEN /\ Goto(c, [Count(call[c], "bbInit") EXCEPT !.pc = "bbRetry",
                                   !.bbTried = Append(@, "wasm"),
                                   !.bbThreads = Append(@, RetryThreads(cfg.bbThreads))])
               /\ Quiet
               /\ UNCHANGED bbInitialized
          ELSE /\ bbInitialized' = FALSE
               /\ Fail(c, call[c], Err(MsgBbFailed))

\* the retry with the non-worker backend settled (lines 124-130)
BbRetryStep(c) ==
    /\ call[c].pc = "bbRetry"
    /\ UNCHANGED <<queueVars, facadeVars>>
    /\ UNCHANGED <<envVars, node, accountWallet, testWalletInstance, derivedKeys,
                   evmAddress, aztecAddress, feePaymentMethod, listenerVars,
                   sdkFeePaymentMethod, nextHandle, fpcRegistered, established, budget>>
    /\ \/ /\ bbInitialized' = TRUE
          /\ L1Enter(c, call[c])
       \/ /\ Fail(c, call[c], Err(MsgBbFailed))
          /\ UNCHANGED bbInitialized

\* setupAccount line 303: createECDSAKAccount reads this.derivedKeys
AccountEnter(c, rec) ==
    IF derivedKeys = Null
    THEN Fail(c, rec, Err(MsgNullDeref))
    ELSE Goto(c, [rec EXCEPT !.pc = "metadata", !.keys = derivedKeys]) /\ Quiet

\* getL1ContractAddresses and TestWallet.create settled (lines 255-297): a new
\* TestWallet; with a fee provider the on-network check of the sponsor starts
L1Step(c) ==
    /\ call[c].pc = "l1"
    /\ UNCHANGED <<queueVars, facadeVars>>
    /\ UNCHANGED <<envVars, walletVars, listenerVars, sdkFeePaymentMethod,
                   fpcRegistered, established, budget>>
    /\ \/ /\ Fail(c, call[c], Err(MsgWalletCreate))
          /\ UNCHANGED nextHandle
       \/ LET rec == [call[c] EXCEPT !.tw = TestWallet(nextHandle)] IN
          /\ nextHandle' = nextHandle + 1
          /\ IF cfg.feeMode = "sponsored"
             THEN Goto(c, [rec EXCEPT !.pc = "fpc"]) /\ Quiet
             ELSE AccountEnter(c, rec)

\* node.getContract(fpcAddress) settled, or this.node was null (lines 277-289):
\* every outcome is swallowed; resolveFeePaymentMethod (86-93) returns the
\* cached method or calls the provider
FpcStep(c) ==
    /\ call[c].pc = "fpc"
    /\ UNCHANGED <<queueVars, facadeVars>>
    /\ UNCHANGED <<envVars, walletVars, listenerVars, sdkFeePaymentMethod, nextHandle,
                   fpcRegistered, established, budget>>
    /\ \E outcome \in IF node = Null THEN {"failed"} ELSE {"found", "missing", "failed"} :
          LET rec == [call[c] EXCEPT !.fpcCheck = outcome] IN
          IF FpcCheckCatch(outcome) = "throw"
          THEN Fail(c, rec, Err(MsgFpcCheck))
          ELSE IF feePaymentMethod # Null
          THEN AccountEnter(c, [rec EXCEPT !.pm = feePaymentMethod])
          ELSE Goto(c, [Count(rec, "feeResolve") EXCEPT !.pc = "feeResolve"]) /\ Quiet

\* the provider's getSponsoredPaymentMethod settled (sponsored.ts 13-45, SDK
\* constructor 34-38, resolveFeePaymentMethod 93-95): it cannot fail
FeeResolveStep(c) ==
    /\ call[c].pc = "feeResolve"
    /\ UNCHANGED <<queueVars, facadeVars>>
    /\ UNCHANGED <<envVars, node, accountWallet, testWalletInstance, derivedKeys,
                   evmAddress, aztecAddress, bbInitialized, listenerVars, nextHandle,
                   established, budget>>
    /\ sdkFeePaymentMethod' = SponsoredFeePaymentMethod
    /\ feePaymentMethod' = SponsoredFeePaymentMethod
    /\ fpcRegistered' = fpcRegistered \cup {call[c].tw}
    /\ AccountEnter(c, [call[c] EXCEPT !.pm = SponsoredFeePaymentMethod])

\* setupAccount lines 355-366: keep the TestWallet, register the sender
SenderEnter(c, rec) ==
    /\ testWalletInstance' = rec.tw
    /\ Goto(c, [rec EXCEPT !.pc = "sender"])
    /\ Quiet

\* createECDSAKAccount and getContractMetadata settled (lines 303-340): an
\* initialized account is reused; else the deploy method is built and the
\* deployment is sent
MetadataStep(c) ==
    /\ call[c].pc = "metadata"
    /\ UNCHANGED <<queueVars, facadeVars>>
    /\ UNCHANGED <<envVars, node, accountWallet, derivedKeys, evmAddress, aztecAddress,
                   feePaymentMethod, bbInitialized, listenerVars, sdkFeePaymentMethod,
                   nextHandle, fpcRegistered, established, budget>>
    /\ \/ /\ Fail(c, call[c], Err(MsgMetadata))
          /\ UNCHANGED testWalletInstance
       \/ LET address == AccountAddress(call[c].keys)
              isContractInitialized == address \in deployed
              rec == [call[c] EXCEPT !.address = address,
                                     !.metaInit = IF isContractInitialized
                                                  THEN "initialized" ELSE "uninitialized"] IN
          IF ShouldDeploy(isContractInitialized)
          THEN /\ UNCHANGED testWalletInstance
               /\ Goto(c, [Count(rec, "deploySend") EXCEPT
                              !.pc = "deployWait", !.deployOpts = DeployOpts(rec.pm)])
               /\ Quiet
          ELSE SenderEnter(c, rec)

\* getTxHash and tx.wait settled (lines 340-355): a failed submission or a
\* timeout is thrown; the network initializes an address once, a second
\* deployment of it is never confirmed
DeployWaitStep(c) ==
    /\ call[c].pc = "deployWait"
    /\ UNCHANGED <<queueVars, facadeVars>>
    /\ UNCHANGED <<cfg, hasEthereum, signer, derivations, deriveCall, peer, node, accountWallet,
                   derivedKeys, evmAddress,
                   aztecAddress, feePaymentMethod, bbInitialized, listenerVars,
                   sdkFeePaymentMethod, nextHandle, fpcRegistered, established, budget>>
    /\ \/ /\ Fail(c, call[c], Err(MsgDeployTimeout))
          /\ UNCHANGED <<deployed, testWalletInstance>>
       \/ /\ call[c].address \notin deployed
          /\ deployed' = deployed \cup {call[c].address}
          /\ SenderEnter(c, [call[c] EXCEPT !.waited = TRUE])

\* connect() lines 195-200: publish connected and return the cached handle;
\* building the message reads this.aztecAddress
ConnectedReturn(c, rec, handle, addr) ==
    IF addr = Null
    THEN /\ Fail(c, rec, Err(MsgNullDeref))
         /\ UNCHANGED <<sdkFeePaymentMethod, fpcRegistered, established>>
    ELSE /\ SdkConnectReturn(c, [rec EXCEPT !.trace = Append(@, "connected")], handle)
         /\ SetState(ConnectionState("connected", "Connected! Aztec address: ..."))

\* registerSender and the deployer pre-registration settled, setupAccount
\* returns (lines 366-387, 185-200): cache the handle and the address, then
\* sync or publish connected
SenderStep(c) ==
    /\ call[c].pc = "sender"
    /\ UNCHANGED <<queueVars, facadeVars>>
    /\ UNCHANGED <<envVars, node, testWalletInstance, derivedKeys, evmAddress,
                   feePaymentMethod, bbInitialized, listenerVars, nextHandle, budget>>
    /\ \E senderOk \in BOOLEAN :
          LET rec == [call[c] EXCEPT !.senderFailed = ~senderOk] IN
          IF RegisterSenderCatch(senderOk) = "throw"
          THEN /\ Fail(c, rec, Err(MsgSender))
               /\ UNCHANGED <<accountWallet, aztecAddress, sdkFeePaymentMethod,
                              fpcRegistered, established>>
          ELSE
          /\ accountWallet' = rec.tw
          /\ aztecAddress' = rec.address
          /\ IF ShouldSync(cfg.autoSync)
             THEN /\ Goto(c, [rec EXCEPT !.pc = "sync", !.trace = Append(@, "syncing")])
                  /\ SetState(ConnectionState("syncing", "Syncing private state..."))
                  /\ UNCHANGED <<sdkFeePaymentMethod, fpcRegistered, established>>
             ELSE ConnectedReturn(c, rec, rec.tw, rec.address)

\* syncPrivateState settled (lines 192-200, 401-410)
SyncStep(c) ==
    /\ call[c].pc = "sync"
    /\ UNCHANGED <<queueVars, facadeVars>>
    /\ UNCHANGED <<envVars, walletVars, listenerVars, nextHandle, budget>>
    /\ ConnectedReturn(c, call[c], accountWallet, aztecAddress)

(* --------------------------- disconnect -------------------------------- *)
\* disconnect() leaves a connect() in progress running; the call is marked
\* with the number of deployments it had sent when disconnect() ran
Interrupt(rec) ==
    IF rec.pc \in InFlight /\ rec.interrupted = Null
    THEN [rec EXCEPT !.interrupted = <<rec.counts.deploySend>>]
    ELSE rec

\* VizardSdk.disconnect (lines 82-85) -> VizardWallet.disconnect (lines 415-423)
Disconnect ==
    /\ budget.disconnect > 0
    /\ budget' = [budget EXCEPT !.disconnect = @ - 1]
    /\ node' = Null /\ accountWallet' = Null /\ testWalletInstance' = Null
    /\ derivedKeys' = Null /\ evmAddress' = Null /\ aztecAddress' = Null
    /\ SetState(ConnectionState("disconnected", "Disconnected"))
    /\ established' = {}
    /\ registeredContracts' = {}
    /\ completedKeys' = {}
    /\ call' = [c \in Calls |-> Interrupt(call[c])]
    /\ UNCHANGED <<envVars, feePaymentMethod, bbInitialized, listenerVars,
                   sdkFeePaymentMethod, nextHandle, fpcRegistered,
                   ops, txQueue, began, fcall, walletContracts>>

(* ---------------------- VizardSdk transaction queue -------------------- *)
\* what an operation's promise rejects with: the operation whose body threw
\* it, and the message
TxErr(i, m) == [op |-> i, message |-> m]
NoTxErr == TxErr(0, "")

MsgNotConnected == "Wallet not connected"
MsgNoAccount == "Aztec account not available."
MsgSchnorr == "createSchnorrAccount failed"
MsgGetContract == "node.getContract failed"
MsgTokenNotFound == "Token contract not found"
MsgRegisterContract == "registerContract failed"
MsgSubmit == "transaction submission failed"
MsgTxTimeout == "transaction confirmation timeout"

TxRunning == {"account", "getContract", "registerContract", "hash", "wait"}
TxSettled == {"fulfilled", "rejected"}

\* the state of the promise enqueueTx returned for operation j; txQueue starts
\* as Promise.resolve()
Outcome(j) == IF j = 0 THEN "fulfilled" ELSE ops[j].pc

\* handlers that run at once, without waiting for the promise
ReadyAlways(outcome) == TRUE

\* then(): the handlers of a promise run only once it has settled
Ready(outcome) == outcome \in TxSettled

\* a queue that chains with txQueue = txQueue.then(run): a rejection is passed on
ChainNoRecovery(outcome) == IF outcome = "fulfilled" THEN "run" ELSE "reject"

\* enqueueTx lines 62-63: txQueue is next.then(noop, noop) and the operation
\* behind it is txQueue.then(run, run): run is called however the predecessor
\* settled
Chain(outcome) == "run"

\* a queue that forgets to move txQueue to the new operation
NewTailStale(old, i) == old

\* enqueueTx line 63: txQueue follows the operation just enqueued
NewTail(old, i) == i

\* a body whose failure resets the session the way the catch of connect() does
TxThrowResets(i, m) ==
    /\ ops' = [ops EXCEPT ![i].pc = "rejected", ![i].err = TxErr(i, m)]
    /\ SetState(ConnectionState("disconnected", m))

\* a throw in the body of a queued operation: its promise rejects; the body
\* has no catch and assigns no field of the session
TxThrow(i, m) ==
    /\ ops' = [ops EXCEPT ![i].pc = "rejected", ![i].err = TxErr(i, m)]
    /\ UNCHANGED <<connectionState, delivered, logVars>>

TxGoto(i, pc) ==
    /\ ops' = [ops EXCEPT ![i].pc = pc]
    /\ UNCHANGED <<connectionState, delivered, logVars>>

\* enqueueTx (lines 60-65): chain the operation behind txQueue; personalSign
\* counts the signer requests the body issues: no statement of mintTokens
\* (168-226) or sendPublicTransfer (240-271) calls window.ethereum
EnqueueTx(kind) ==
    /\ budget.enqueue > 0
    /\ UNCHANGED facadeVars
    /\ budget' = [budget EXCEPT !.enqueue = @ - 1]
    /\ ops' = Append(ops, [kind |-> kind, pc |-> "pending", after |-> txQueue,
                           err |-> NoTxErr, wallet |-> Null, personalSign |-> 0])
    /\ txQueue' = NewTail(txQueue, Len(ops) + 1)
    /\ UNCHANGED <<envVars, walletVars, connectionState, listenerVars, delivered, logVars,
                   sdkFeePaymentMethod, call, nextHandle, fpcRegistered, established,
                   registeredContracts, began>>

\* mintTokens (line 169) and sendPublicTransfer (line 241)
MintTokens == EnqueueTx("mint")
SendPublicTransfer == EnqueueTx("transfer")

\* getTokenContract line 135 and mintTokens line 198: fetch and
\* register the token unless its key is in registeredContracts
TokenEnter(i, rec) ==
    /\ ops' = [ops EXCEPT ![i] = [rec EXCEPT !.pc = IF AddressKey(Token) \in registeredContracts
                                                   THEN "hash" ELSE "getContract"]]
    /\ UNCHANGED <<connectionState, delivered, logVars>>

\* the predecessor settled and the handler runs: the body begins (mintTokens
\* 170-184, sendPublicTransfer 242-256, getTokenContract 125-136)
TxStart(i) ==
    /\ i \in DOMAIN ops
    /\ ops[i].pc = "pending"
    /\ UNCHANGED facadeVars
    /\ Ready(Outcome(ops[i].after))
    /\ UNCHANGED <<envVars, walletVars, listenerVars, sdkFeePaymentMethod, call,
                   nextHandle, fpcRegistered, established, registeredContracts,
                   txQueue, budget>>
    /\ IF Chain(Outcome(ops[i].after)) = "reject"
       THEN /\ ops' = [ops EXCEPT ![i].pc = "rejected", ![i].err = ops[ops[i].after].err]
            /\ UNCHANGED <<began, connectionState, delivered, logVars>>
       ELSE /\ began' = Append(began, i)
            /\ IF ops[i].kind = "mint"
               THEN IF node = Null \/ aztecAddress = Null \/ testWalletInstance = Null
                    THEN TxThrow(i, MsgNotConnected)
                    ELSE /\ ops' = [ops EXCEPT ![i].pc = "account",
                                               ![i].wallet = testWalletInstance]
                         /\ UNCHANGED <<connectionState, delivered, logVars>>
               ELSE IF aztecAddress = Null
                    THEN TxThrow(i, MsgNoAccount)
                    ELSE IF accountWallet = Null \/ node = Null
                    THEN TxThrow(i, MsgNotConnected)
                    ELSE TokenEnter(i, [ops[i] EXCEPT !.wallet = accountWallet])

\* mintTokens 184-198: createSchnorrAccount settled, getSponsoredPaymentMethod
\* (which swallows its failures) settled
TxAccountStep(i) ==
    /\ i \in DOMAIN ops
    /\ ops[i].pc = "account"
    /\ UNCHANGED facadeVars
    /\ UNCHANGED <<envVars, walletVars, listenerVars, sdkFeePaymentMethod, call,
                   nextHandle, established, registeredContracts, txQueue, began, budget>>
    /\ \/ /\ TxThrow(i, MsgSchnorr)
          /\ UNCHANGED fpcRegistered
       \/ /\ fpcRegistered' = fpcRegistered \cup {ops[i].wallet}
          /\ TokenEnter(i, ops[i])

\* node.getContract settled (mintTokens 199-202, getTokenContract 138-142)
TxGetContractStep(i) ==
    /\ i \in DOMAIN ops
    /\ ops[i].pc = "getContract"
    /\ UNCHANGED facadeVars
    /\ UNCHANGED <<envVars, walletVars, listenerVars, sdkFeePaymentMethod, call,
                   nextHandle, fpcRegistered, established, registeredContracts,
                   txQueue, began, budget>>
    /\ \/ \E m \in {MsgGetContract, MsgTokenNotFound} : TxThrow(i, m)
       \/ TxGoto(i, "registerContract")

\* registerContract settled (mintTokens 203-204, getTokenContract 150-154): the
\* key is added; sendPublicTransfer then calls wallet.syncPrivateState, which
\* throws without an account handle
TxRegisterStep(i) ==
    /\ i \in DOMAIN ops
    /\ ops[i].pc = "registerContract"
    /\ UNCHANGED <<fcall, completedKeys>>
    /\ UNCHANGED <<envVars, walletVars, listenerVars, sdkFeePaymentMethod, call,
                   nextHandle, fpcRegistered, established, txQueue, began, budget>>
    /\ \/ /\ TxThrow(i, MsgRegisterContract)
          /\ UNCHANGED <<registeredContracts, walletContracts>>
       \/ /\ registeredContracts' = registeredContracts \cup {AddressKey(Token)}
          /\ walletContracts' = walletContracts \cup {<<ops[i].wallet, AddressKey(Token)>>}
          /\ IF ops[i].kind = "transfer" /\ accountWallet = Null
             THEN TxThrow(i, MsgNotConnected)
             ELSE TxGoto(i, "hash")

\* send() and getTxHash settled (mintTokens 208-218, sendPublicTransfer
\* 257-269): a transfer returns the sent transaction, a mint waits for it
TxHashStep(i) ==
    /\ i \in DOMAIN ops
    /\ ops[i].pc = "hash"
    /\ UNCHANGED facadeVars
    /\ UNCHANGED <<envVars, walletVars, listenerVars, sdkFeePaymentMethod, call,
                   nextHandle, fpcRegistered, established, registeredContracts,
                   txQueue, began, budget>>
    /\ \/ TxThrow(i, MsgSubmit)
       \/ TxGoto(i, IF ops[i].kind = "mint" THEN "wait" ELSE "fulfilled")

\* tx.wait({ timeout: 300000 }) settled (mintTokens 221-224)
TxWaitStep(i) ==
    /\ i \in DOMAIN ops
    /\ ops[i].pc = "wait"
    /\ UNCHANGED facadeVars
    /\ UNCHANGED <<envVars, walletVars, listenerVars, sdkFeePaymentMethod, call,
                   nextHandle, fpcRegistered, established, registeredContracts,
                   txQueue, began, budget>>
    /\ \/ TxThrow(i, MsgTxTimeout)
       \/ TxGoto(i, "fulfilled")

TxStep(i) ==
    \/ TxStart(i) \/ TxAccountStep(i) \/ TxGetContractStep(i) \/ TxRegisterStep(i)
    \/ TxHashStep(i) \/ TxWaitStep(i)

(* ------------------- VizardSdk calls outside the queue ----------------- *)
FacadeKinds == {"contractAt", "balance", "sync"}
FcRunning == {"getContract", "registerContract", "simulate"}
MsgSimulate == "simulate failed"

\* a guard that looks at the account handle only
MissingHandleOnly(kind) ==
    IF accountWallet = Null THEN MsgNotConnected ELSE ""

\* the check an operation starts with, as the message it throws ("" when it
\* passes): contractAt lines 97-101, syncPrivateState lines 120-123,
\* getPublicBalance lines 229-232 followed by getTokenContract lines 125-129
Missing(kind) ==
    IF kind = "sync"
    THEN IF accountWallet = Null THEN MsgNotConnected ELSE ""
    ELSE IF kind = "balance" /\ aztecAddress = Null THEN MsgNoAccount
    ELSE IF accountWallet = Null \/ node = Null THEN MsgNotConnected
    ELSE ""

\* a registration test that ignores the register argument
NeedsRegistrationAlways(register, key) == key \notin registeredContracts

\* contractAt line 106, getTokenContract line 135
NeedsRegistration(register, key) == register /\ key \notin registeredContracts

\* a cache keyed by the address string as the caller wrote it
RawKey(a) == a

\* contractAt lines 103-104
CacheKey(a) == AddressKey(a)

\* a facade that marks the key as cached before registerContract has settled
RegisteredEagerly(cache, key, ok) == cache \cup {key}

\* contractAt lines 111-112: the key is added once registerContract has
\* resolved; a rejection leaves line 112 unexecuted
Registered(cache, key, ok) == IF ok THEN cache \cup {key} ELSE cache

FcGoto(i, rec) == fcall' = [fcall EXCEPT ![i] = rec]
FcThrow(i, rec, m) == FcGoto(i, [rec EXCEPT !.pc = "rejected", !.err = m])

\* contract.at(aztecAddress, wallet) of contractAt line 116 returns; a balance
\* query goes on to simulate (getPublicBalance line 237)
FcLoaded(i, rec) ==
    IF rec.kind = "balance"
    THEN /\ FcGoto(i, [rec EXCEPT !.pc = "simulate"])
         /\ UNCHANGED completedKeys
    ELSE /\ FcGoto(i, [rec EXCEPT !.pc = "resolved"])
         /\ completedKeys' = IF rec.register THEN completedKeys \cup {AddressKey(rec.addr)}
                             ELSE completedKeys

\* an invocation of contractAt, getPublicBalance or syncPrivateState: the code
\* up to its first await
FacadeCall(kind, a, register) ==
    /\ budget.facade > 0
    /\ budget' = [budget EXCEPT !.facade = @ - 1]
    /\ UNCHANGED <<envVars, walletVars, connectionState, listenerVars, delivered, logVars,
                   sdkFeePaymentMethod, call, nextHandle, fpcRegistered, established,
                   queueVars, walletContracts>>
    /\ LET i == Len(fcall) + 1
           rec == [kind |-> kind, pc |-> "invoked", addr |-> a, register |-> register,
                   wallet |-> accountWallet, fetches |-> 0, registers |-> 0, err |-> "",
                   done |-> AddressKey(a) \in completedKeys,
                   cached |-> CacheKey(a) \in registeredContracts,
                   est |-> established # {},
                   epoch |-> MaxDisconnects - budget.disconnect]
       IN  IF Missing(kind) # ""
           THEN /\ fcall' = Append(fcall, [rec EXCEPT !.pc = "rejected", !.err = Missing(kind)])
                /\ UNCHANGED completedKeys
           ELSE IF kind = "sync"
           THEN /\ fcall' = Append(fcall, [rec EXCEPT !.pc = "resolved"])
                /\ UNCHANGED completedKeys
           ELSE IF NeedsRegistration(register, CacheKey(a))
           THEN /\ fcall' = Append(fcall, [rec EXCEPT !.pc = "getContract", !.fetches = @ + 1])
                /\ UNCHANGED completedKeys
           ELSE /\ fcall' = Append(fcall, IF kind = "balance"
                                          THEN [rec EXCEPT !.pc = "simulate"]
                                          ELSE [rec EXCEPT !.pc = "resolved"])
                /\ completedKeys' = IF kind = "contractAt" /\ register
                                    THEN completedKeys \cup {AddressKey(a)}
                                    ELSE completedKeys

ContractAt(a, register) == FacadeCall("contractAt", a, register)
GetPublicBalance(a) == FacadeCall("balance", a, TRUE)
SyncPrivateState == FacadeCall("sync", Token, FALSE)

\* node.getContract settled (contractAt lines 107-110): it threw, it found no
\* instance, or registerContract is called with the instance
FcGetContractStep(i) ==
    /\ i \in DOMAIN fcall
    /\ fcall[i].pc = "getContract"
    /\ UNCHANGED <<envVars, walletVars, connectionState, listenerVars, delivered, logVars,
                   sdkFeePaymentMethod, call, nextHandle, fpcRegistered, established,
                   queueVars, walletContracts, completedKeys, budget>>
    /\ \/ \E m \in {MsgGetContract, MsgTokenNotFound} : FcThrow(i, fcall[i], m)
       \/ FcGoto(i, [fcall[i] EXCEPT !.pc = "registerContract", !.registers = @ + 1])

\* wallet.registerContract settled (contractAt lines 111-113): the key is added
\* and VizardWallet.syncPrivateState (lines 401-405) throws without an account
\* handle
FcRegisterStep(i) ==
    /\ i \in DOMAIN fcall
    /\ fcall[i].pc = "registerContract"
    /\ UNCHANGED <<envVars, walletVars, connectionState, listenerVars, delivered, logVars,
                   sdkFeePaymentMethod, call, nextHandle, fpcRegistered, established,
                   ops, txQueue, began, budget>>
    /\ \/ /\ FcThrow(i, fcall[i], MsgRegisterContract)
          /\ registeredContracts' =
                 Registered(registeredContracts, CacheKey(fcall[i].addr), FALSE)
          /\ UNCHANGED <<walletContracts, completedKeys>>
       \/ /\ registeredContracts' =
                 Registered(registeredContracts, CacheKey(fcall[i].addr), TRUE)
          /\ walletContracts' = walletContracts \cup
                                    {<<fcall[i].wallet, CacheKey(fcall[i].addr)>>}
          /\ IF accountWallet = Null
             THEN /\ FcThrow(i, fcall[i], MsgNotConnected)
                  /\ UNCHANGED completedKeys
             ELSE FcLoaded(i, fcall[i])

\* balance_of_public(account).simulate settled (getPublicBalance line 237)
FcSimulateStep(i) ==
    /\ i \in DOMAIN fcall
    /\ fcall[i].pc = "simulate"
    /\ UNCHANGED <<envVars, walletVars, connectionState, listenerVars, delivered, logVars,
                   sdkFeePaymentMethod, call, nextHandle, fpcRegistered, established,
                   queueVars, walletContracts, completedKeys, budget>>
    /\ \/ FcThrow(i, fcall[i], MsgSimulate)
       \/ FcGoto(i, [fcall[i] EXCEPT !.pc = "resolved"])

FcStep(i) == FcGetContractStep(i) \/ FcRegisterStep(i) \/ FcSimulateStep(i)

(* ------------------------- the specifications -------------------------- *)
ConnectStep(c) ==
    \/ ConnectEnter(c) \/ AccountsStep(c) \/ DeriveStep(c) \/ PxeStep(c)
    \/ SetupStep(c) \/ BbInitStep(c) \/ BbRetryStep(c) \/ L1Step(c) \/ FpcStep(c)
    \/ FeeResolveStep(c) \/ MetadataStep(c) \/ DeployWaitStep(c)
    \/ SenderStep(c) \/ SyncStep(c)

Next ==
    \/ \E c \in Calls : ConnectStep(c)
    \/ Disconnect
    \/ \E l \in Listeners : OnStateChange(l) \/ Unsubscribe(l)

Spec == Init /\ [][Next]_vars

\* callers that do not wait for a connect() to settle before the next one
OverlapInit ==
    /\ cfg \in [feeMode : {"sponsored"}, autoSync : {"unset", "false"},
                 bbBackend : {"wasm-worker"},
                 bbThreads : {Null}]
    /\ hasEthereum = TRUE
    /\ signer = Deterministic(Accounts)
    /\ deployed \in SUBSET {AccountAddress(DeriveKeys(a)) : a \in Accounts}
    /\ Constructed
    /\ budget = [connect |-> MaxConnects, disconnect |-> 0,
                 subscribe |-> 0, inFlight |-> 2, enqueue |-> 0, facade |-> 0,
                 observe |-> FALSE]

OverlapNext ==
    \E c \in Calls : ConnectStep(c)

OverlapSpec == OverlapInit /\ [][OverlapNext]_vars

\* connect() under its scheduling assumption: every external call a connect()
\* awaits (signer request, node call, backend initialization, confirmation
\* wait) eventually returns or fails, so each call's next step is weakly fair;
\* the callers may or may not overlap their calls
ConnectFairInit ==
    /\ cfg \in [feeMode : {"sponsored"}, autoSync : {"unset", "false"},
                 bbBackend : {"wasm-worker"}, bbThreads : {Null}]
    /\ hasEthereum = TRUE
    /\ signer = Deterministic(Accounts)
    /\ deployed = {}
    /\ Constructed
    /\ budget = [connect |-> 2, disconnect |-> 0,
                 subscribe |-> 0, inFlight |-> 2, enqueue |-> 0, facade |-> 0,
                 observe |-> FALSE]

ConnectFairNext ==
    \E c \in Calls : ConnectStep(c)

ConnectFairSpec ==
    /\ ConnectFairInit
    /\ [][ConnectFairNext]_vars
    /\ \A c \in Calls : WF_vars(ConnectStep(c))

\* a session of a new account that is connected once, may be disconnected,
\* and whose caller submits operations through the transaction queue at any
\* time
QueueInit ==
    /\ cfg \in [feeMode : {"sponsored"}, autoSync : {"unset"}, bbBackend : {"wasm-worker"},
                 bbThreads : {Null}]
    /\ hasEthereum = TRUE
    /\ signer = Deterministic(Accounts)
    /\ deployed = {}
    /\ Constructed
    /\ budget = [connect |-> 1, disconnect |-> MaxDisconnects, subscribe |-> 0,
                 inFlight |-> 1, enqueue |-> MaxEnqueues, facade |-> 0,
                 observe |-> FALSE]

QueueNext ==
    \/ \E c \in Calls : ConnectStep(c)
    \/ Disconnect
    \/ MintTokens
    \/ SendPublicTransfer
    \/ \E i \in 1..MaxEnqueues : TxStep(i)

QueueSpec == QueueInit /\ [][QueueNext]_vars

\* The queue under its scheduling assumptions: a handler attached with then()
\* runs once its promise has settled (the microtask queue is drained), and
\* every await inside the body of a queued operation eventually settles (the
\* node answers or the call times out). Each operation's steps are therefore
\* weakly fair; nothing is assumed about connect(), disconnect() or the callers.
QueueFairInit ==
    /\ cfg \in [feeMode : {"sponsored"}, autoSync : {"unset"}, bbBackend : {"wasm-worker"},
                 bbThreads : {Null}]
    /\ hasEthereum = TRUE
    /\ signer = Deterministic(Accounts)
    /\ deployed = {}
    /\ Constructed
    /\ budget = [connect |-> 1, disconnect |-> 0, subscribe |-> 0,
                 inFlight |-> 1, enqueue |-> MaxEnqueues, facade |-> 0,
                 observe |-> FALSE]

QueueFairNext ==
    \/ \E c \in Calls : ConnectStep(c)
    \/ MintTokens
    \/ SendPublicTransfer
    \/ \E i \in 1..MaxEnqueues : TxStep(i)

QueueFairSpec ==
    /\ QueueFairInit
    /\ [][QueueFairNext]_vars
    /\ \A i \in 1..MaxEnqueues : WF_vars(TxStep(i))

\* a session that is connected, may be disconnected and connected again, and
\* whose caller loads contracts and queries balances at any time
ContractInit ==
    /\ cfg \in [feeMode : {"sponsored"}, autoSync : {"true"}, bbBackend : {"wasm-worker"},
                 bbThreads : {Null}]
    /\ hasEthereum = TRUE
    /\ signer = Deterministic(Accounts)
    /\ deployed = {}
    /\ Constructed
    /\ budget = [connect |-> 2, disconnect |-> MaxDisconnects, subscribe |-> 0,
                 inFlight |-> 1, enqueue |-> 0, facade |-> MaxFacadeCalls,
                 observe |-> FALSE]

ContractNext ==
    \/ \E c \in Calls : ConnectStep(c)
    \/ Disconnect
    \/ \E a \in AddressInputs, register \in BOOLEAN : ContractAt(a, register)
    \/ \E a \in AddressInputs : GetPublicBalance(a)
    \/ SyncPrivateState
    \/ \E i \in 1..MaxFacadeCalls : FcStep(i)

ContractSpec == ContractInit /\ [][ContractNext]_vars

\* a session whose caller invokes one facade call and one queued operation at
\* any time, before, during and after a connection
GuardInit ==
    /\ cfg \in [feeMode : {"sponsored"}, autoSync : {"true"}, bbBackend : {"wasm-worker"},
                 bbThreads : {Null}]
    /\ hasEthereum = TRUE
    /\ signer = Deterministic(Accounts)
    /\ deployed = {}
    /\ Constructed
    /\ budget = [connect |-> 1, disconnect |-> MaxDisconnects, subscribe |-> 0,
                 inFlight |-> 1, enqueue |-> 1, facade |-> 1, observe |-> FALSE]

GuardNext ==
    \/ \E c \in Calls : ConnectStep(c)
    \/ Disconnect
    \/ \E a \in AddressInputs, register \in BOOLEAN : ContractAt(a, register)
    \/ \E a \in AddressInputs : GetPublicBalance(a)
    \/ SyncPrivateState
    \/ \E i \in 1..MaxFacadeCalls : FcStep(i)
    \/ MintTokens
    \/ SendPublicTransfer
    \/ \E i \in 1..MaxEnqueues : TxStep(i)

GuardSpec == GuardInit /\ [][GuardNext]_vars

\* a session observed by listeners that subscribe and unsubscribe at any time
\* while it is connected and disconnected; the observer variables record what
\* was published and what each listener was called with
ListenerInit ==
    /\ cfg \in [feeMode : {"sponsored"}, autoSync : {"true"}, bbBackend : {"wasm-worker"},
                 bbThreads : {Null}]
    /\ hasEthereum = TRUE
    /\ signer = Deterministic(Accounts)
    /\ deployed = {}
    /\ Constructed
    /\ budget = [connect |-> 1, disconnect |-> MaxDisconnects,
                 subscribe |-> MaxListenerSubscribes, inFlight |-> 1, enqueue |-> 0,
                 facade |-> 0, observe |-> TRUE]

ListenerNext ==
    \/ \E c \in Calls : ConnectStep(c)
    \/ Disconnect
    \/ \E l \in Listeners : OnStateChange(l) \/ Unsubscribe(l)

ListenerSpec == ListenerInit /\ [][ListenerNext]_vars

\* deriveAztecKeys(evmAddress) called by the application itself, lines 51-64:
\* without window.ethereum it throws, else it asks for the signature
DeriveAztecKeysEnter(a) ==
    /\ deriveCall.pc = "idle"
    /\ UNCHANGED <<cfg, hasEthereum, deployed, signer, derivations, peer, walletVars,
                   connectionState, delivered, logVars, listenerVars,
                   sdkFeePaymentMethod, call, nextHandle, fpcRegistered, established,
                   queueVars, facadeVars, budget>>
    /\ IF ~SignerPresent(hasEthereum)
       THEN deriveCall' = [deriveCall EXCEPT !.pc = "rejected", !.evm = a,
                                             !.err = Err(MsgNoMetaMask)]
       ELSE deriveCall' = [deriveCall EXCEPT !.pc = "sign", !.evm = a,
                                             !.personalSign = @ + 1]

\* personal_sign of that call settled, lines 61-78: the rejection is thrown,
\* or the keys are derived from the signature and returned
DeriveAztecKeysStep ==
    /\ deriveCall.pc = "sign"
    /\ UNCHANGED <<cfg, hasEthereum, deployed, signer, derivations, peer, walletVars,
                   connectionState, delivered, logVars, listenerVars,
                   sdkFeePaymentMethod, call, nextHandle, fpcRegistered, established,
                   queueVars, facadeVars, budget>>
    /\ \/ deriveCall' = [deriveCall EXCEPT !.pc = "rejected", !.err = Err(MsgUserRejected)]
       \/ \E n \in Nonces(signer.deterministic) :
            deriveCall' = [deriveCall EXCEPT
                              !.pc = "resolved",
                              !.keys = DeriveAztecKeys(deriveCall.evm,
                                          Signature(deriveCall.evm,
                                                    CreateDerivationMessage(deriveCall.evm), n))]

\* sessions configured with any backend kind and thread count
BackendInit ==
    /\ cfg \in [feeMode : {"sponsored"}, autoSync : {"true"},
                 bbBackend : {"wasm-worker", "wasm", "unset"}, bbThreads : ThreadCounts]
    /\ hasEthereum = TRUE
    /\ signer = Deterministic(Accounts)
    /\ deployed = {}
    /\ Constructed
    /\ budget = [connect |-> MaxConnects, disconnect |-> MaxDisconnects, subscribe |-> 0,
                 inFlight |-> 1, enqueue |-> 0, facade |-> 0, observe |-> FALSE]

BackendNext ==
    \/ \E c \in Calls : ConnectStep(c)
    \/ Disconnect

BackendSpec == BackendInit /\ [][BackendNext]_vars

(* ---------------------- a second VizardSdk instance --------------------- *)
\* The second instance is kept in one record; its connect() is followed from
\* the call to its settling, its queued operations from enqueueTx to their
\* settling. The two instances share window.ethereum and the network.
sdkVars == <<cfg, hasEthereum, signer, derivations, deriveCall, walletVars,
             connectionState, delivered, logVars, listenerVars, sdkFeePaymentMethod,
             call, nextHandle, fpcRegistered, established, queueVars, facadeVars>>

\* the TestWallet object the second instance creates
PeerTestWallet == TestWallet(0)

\* a queue kept in a variable of the module, shared by the instances
QueueOfModule(own, shared) == shared

\* `this.txQueue` (VizardSdk line 35): the queue is a field of the instance
QueueOfInstance(own, shared) == own

\* the state of the promise a queue reference follows
OutcomeOf(ref) ==
    IF ref[2] = 0 THEN "fulfilled"
    ELSE IF ref[1] = "peer" THEN peer.ops[ref[2]].pc ELSE ops[ref[2]].pc

\* connect() on the second instance, VizardWallet lines 147-160
PeerConnect ==
    /\ budget.peerConnect > 0
    /\ peer.call # "connecting"
    /\ budget' = [budget EXCEPT !.peerConnect = @ - 1]
    /\ UNCHANGED <<sdkVars, deployed>>
    /\ IF peer.accountWallet # Null
       THEN peer' = [peer EXCEPT !.call = "resolved"]
       ELSE peer' = [peer EXCEPT
                        !.call = "connecting",
                        !.connectionState = ConnectionState("connecting",
                                                            "Connecting to MetaMask...")]

\* that connect() settles, lines 160-206: it rejects and publishes
\* disconnected, or the account is reused or deployed and connected is
\* published
PeerConnectSettle ==
    /\ peer.call = "connecting"
    /\ UNCHANGED <<sdkVars, budget>>
    /\ \/ /\ peer' = [peer EXCEPT !.call = "rejected",
                                    !.connectionState =
                                        ConnectionState("disconnected", MsgUserRejected)]
          /\ UNCHANGED deployed
       \/ \E a \in signer.accounts :
            /\ peer' = [peer EXCEPT !.call = "resolved",
                                    !.accountWallet = PeerTestWallet,
                                    !.connectionState = ConnectionState("connected", "Connected")]
            /\ deployed' = deployed \cup {AccountAddress(DeriveKeys(a))}

\* disconnect() on the second instance, VizardWallet lines 415-423 and the
\* facade's clearing of registeredContracts
PeerDisconnect ==
    /\ budget.peerDisconnect > 0
    /\ budget' = [budget EXCEPT !.peerDisconnect = @ - 1]
    /\ UNCHANGED <<sdkVars, deployed>>
    /\ peer' = [peer EXCEPT !.accountWallet = Null, !.registeredContracts = {},
                            !.connectionState = ConnectionState("disconnected", "Disconnected")]

\* contractAt(a) on the second instance, followed to its settling
PeerContractAt(a) ==
    /\ budget.peerContractAt > 0
    /\ budget' = [budget EXCEPT !.peerContractAt = @ - 1]
    /\ UNCHANGED <<sdkVars, deployed>>
    /\ IF peer.accountWallet = Null
       THEN UNCHANGED peer
       ELSE \/ UNCHANGED peer
            \/ peer' = [peer EXCEPT !.registeredContracts = @ \cup {CacheKey(a)}]

\* enqueueTx on the second instance, lines 60-65
PeerEnqueueTx ==
    /\ budget.peerEnqueue > 0
    /\ budget' = [budget EXCEPT !.peerEnqueue = @ - 1]
    /\ UNCHANGED <<sdkVars, deployed>>
    /\ peer' = [peer EXCEPT
                    !.ops = Append(@, [pc |-> "pending",
                                       after |-> QueueOfInstance(peer.txQueue,
                                                                 <<"sdk", txQueue>>)]),
                    !.txQueue = <<"peer", Len(peer.ops) + 1>>]

\* the predecessor of a queued operation of the second instance settled: its
\* body begins
PeerTxStart(i) ==
    /\ i \in DOMAIN peer.ops
    /\ peer.ops[i].pc = "pending"
    /\ Ready(OutcomeOf(peer.ops[i].after))
    /\ UNCHANGED <<sdkVars, deployed, budget>>
    /\ peer' = [peer EXCEPT !.ops[i].pc = "running"]

\* the body of a queued operation of the second instance settles
PeerTxSettle(i) ==
    /\ i \in DOMAIN peer.ops
    /\ peer.ops[i].pc = "running"
    /\ UNCHANGED <<sdkVars, deployed, budget>>
    /\ \E r \in TxSettled : peer' = [peer EXCEPT !.ops[i].pc = r]

PeerStep ==
    \/ PeerConnect \/ PeerConnectSettle \/ PeerDisconnect
    \/ \E a \in AddressInputs : PeerContractAt(a)
    \/ PeerEnqueueTx
    \/ \E i \in 1..MaxPeerCalls : PeerTxStart(i) \/ PeerTxSettle(i)

\* two VizardSdk instances of one page, used side by side
IsolationInit ==
    /\ cfg \in [feeMode : {"sponsored"}, autoSync : {"unset"}, bbBackend : {"wasm-worker"},
                 bbThreads : {Null}]
    /\ hasEthereum = TRUE
    /\ signer = Deterministic(Accounts)
    /\ deployed = {}
    /\ Constructed
    /\ budget = [connect |-> 1, disconnect |-> MaxDisconnects, subscribe |-> 0,
                 inFlight |-> 1, enqueue |-> 1, facade |-> 0, observe |-> FALSE,
                 peerConnect |-> MaxPeerCalls, peerDisconnect |-> MaxPeerCalls,
                 peerContractAt |-> MaxPeerCalls, peerEnqueue |-> MaxPeerCalls]

IsolationNext ==
    \/ \E c \in Calls : ConnectStep(c)
    \/ Disconnect
    \/ MintTokens
    \/ SendPublicTransfer
    \/ \E i \in 1..MaxEnqueues : TxStep(i)
    \/ PeerStep

IsolationSpec == IsolationInit /\ [][IsolationNext]_vars

\* a session that is connected, may fail or be disconnected, and is connected
\* again, with a signer that may report its address in either form and may or
\* may not sign deterministically; every derivation is recorded
DeriveInit ==
    /\ cfg \in [feeMode : {"sponsored"}, autoSync : {"true"}, bbBackend : {"wasm-worker"},
                 bbThreads : {Null}]
    /\ hasEthereum \in BOOLEAN
    /\ signer \in [accounts : {AccountForms, Accounts}, deterministic : BOOLEAN]
    /\ deployed = {}
    /\ Constructed
    /\ budget = [connect |-> 2, disconnect |-> MaxDisconnects, subscribe |-> 0,
                 inFlight |-> 1, enqueue |-> 0, facade |-> 0, observe |-> TRUE]

DeriveNext ==
    \/ \E c \in Calls : ConnectStep(c)
    \/ Disconnect
    \/ \E a \in signer.accounts : DeriveAztecKeysEnter(a)
    \/ DeriveAztecKeysStep

DeriveSpec == DeriveInit /\ [][DeriveNext]_vars

TypeOK ==
    /\ \A c \in Calls : call[c].pc \in {"idle"} \cup InFlight \cup Settled
    /\ connectionState.status \in {"disconnected", "connecting", "deriving_keys",
                                   "initializing_pxe", "registering", "syncing",
                                   "connected"}

(* ------------------------------ properties ----------------------------- *)
Last(s) == s[Len(s)]
IsPrefix(s, t) == Len(s) <= Len(t) /\ SubSeq(t, 1, Len(s)) = s

\* this step is the invocation of connect() that becomes call c
Invoked(c) == FreeCall(c) /\ budget'.connect < budget.connect

\* this step is the one in which call c rejects
Rejects(c) == call'[c].pc = "rejected" /\ (call[c].pc \in InFlight \/ Invoked(c))

\* C1: once a connect() has resolved with a handle and no disconnect() has
\* run since, every connect() invoked later resolves with that same handle and
\* issues no request-accounts call, no signature request, no node-client
\* connection and no deployment.
IdempotentConnect ==
    [][\A c \in Calls :
          (Invoked(c) /\ established # {}) =>
              /\ call'[c].pc = "resolved"
              /\ \A h \in established : call'[c].result = h
              /\ call'[c].counts.requestAccounts = 0
              /\ call'[c].counts.personalSign = 0
              /\ call'[c].counts.nodeClient = 0
              /\ call'[c].counts.deploySend = 0]_vars

\* the order of statuses of a connect() that runs to connected
StatusOrder(sync) ==
    <<"connecting", "deriving_keys", "initializing_pxe", "registering">>
        \o (IF sync THEN <<"syncing">> ELSE <<>>) \o <<"connected">>

\* C2: a connect() call that does not return the cached handle publishes
\* connecting, deriving_keys, initializing_pxe, registering, then syncing iff
\* autoSync is true or unset, then connected, in this order; a call in flight
\* has published a non-empty prefix of it, a failed call a prefix of it
\* followed by disconnected.
ConnectStatusOrder ==
    \A c \in Calls :
        LET full == StatusOrder(cfg.autoSync \in {"true", "unset"})
            t == call[c].trace
        IN  /\ call[c].pc \in InFlight =>
                   t # <<>> /\ IsPrefix(t, full) /\ Last(t) # "connected"
            /\ (call[c].pc = "resolved" /\ t # <<>>) => t = full
            /\ call[c].pc = "rejected" =>
                   \E k \in 1..(Len(full) - 1) :
                       t = SubSeq(full, 1, k) \o <<"disconnected">>

\* a default-configured connect() resolved after publishing all six statuses
ConnectStatusOrderWitness ==
    \E c \in Calls :
        /\ call[c].pc = "resolved"
        /\ cfg.autoSync = "unset"
        /\ call[c].trace = StatusOrder(TRUE)

\* C3 (as amended): every connect() that rejects sets, in the step in which it
\* rejects, the status disconnected with the thrown Error's message, or with
\* 'Connection failed' when the thrown value is not an Error; that state is
\* delivered to every subscriber, and the thrown value is what the caller gets.
ConnectFailurePublished ==
    [][\A c \in Calls :
          Rejects(c) =>
              /\ connectionState'.status = "disconnected"
              /\ connectionState'.message =
                     IF call'[c].err.isError THEN call'[c].err.message
                     ELSE "Connection failed"
              /\ \A l \in stateListeners : delivered'[l] = connectionState']_vars

\* the signer rejected with a value that is no Error, a subscriber was told
ConnectFailurePublishedWitness ==
    \E c \in Calls :
        /\ call[c].pc = "rejected"
        /\ call[c].err = NonErr(MsgUserRejected)
        /\ connectionState = ConnectionState("disconnected", "Connection failed")
        /\ stateListeners # {}
        /\ \A l \in stateListeners : delivered[l] = connectionState

\* C3 (as stated): every connect() that rejects sets the status disconnected
\* carrying the message of the thrown error, delivered to every subscriber.
ConnectFailureCarriesErrorMessage ==
    [][\A c \in Calls :
          Rejects(c) =>
              /\ connectionState' =
                     ConnectionState("disconnected", call'[c].err.message)
              /\ \A l \in stateListeners : delivered'[l] = connectionState']_vars

DeployFailureCachesNothing ==
    [][\A c \in Calls :
          (call[c].pc = "deployWait" /\ call'[c].pc = "rejected") =>
              /\ connectionState'.status = "disconnected"
              /\ accountWallet' = Null]_vars

\* C6: a failed sender registration never rejects connect(): the step caches
\* the handle and goes on to sync or connected, and such a call resolves with
\* its handle and status connected unless a disconnect() nulled the address
\* during its sync; a failed or empty fee-sponsor check never rejects the call
\* either (the step after it fails only on keys a disconnect() nulled).
DegradationsNonFatal ==
    /\ [](\A c \in Calls :
            /\ call[c].senderFailed =>
                   \/ call[c].pc = "sync"
                   \/ /\ call[c].pc = "resolved"
                      /\ call[c].result = call[c].tw
                      /\ Last(call[c].trace) = "connected"
                   \/ /\ call[c].pc = "rejected"
                      /\ call[c].err = Err(MsgNullDeref)
                      /\ budget.disconnect < MaxDisconnects
            /\ (call[c].fpcCheck \in {"missing", "failed"} /\ call[c].pc = "rejected") =>
                   call[c].err \in {Err(MsgNullDeref), Err(MsgMetadata),
                                    Err(MsgDeployTimeout)})
    /\ [][\A c \in Calls :
            /\ (call[c].pc = "sender" /\ call'[c].pc # call[c].pc) =>
                   /\ call'[c].pc \in {"sync", "resolved"}
                   /\ accountWallet' = call[c].tw
            /\ (call[c].pc = "fpc" /\ call'[c].pc = "rejected") =>
                   derivedKeys = Null]_vars

\* a connect() whose sender registration and fee-sponsor check both failed
\* resolved with its handle, status connected
DegradationsNonFatalWitness ==
    \E c \in Calls :
        /\ call[c].pc = "resolved"
        /\ call[c].senderFailed
        /\ call[c].fpcCheck = "failed"
        /\ call[c].result = call[c].tw
        /\ connectionState.status = "connected"

Range(f) == {f[x] : x \in DOMAIN f}

\* C7: at most one body of a queued operation is executing at any time, and
\* an operation has begun only if the promise of every operation enqueued
\* before it has settled, fulfilled or rejected.
QueueSerialized ==
    /\ Cardinality({i \in DOMAIN ops : ops[i].pc \in TxRunning}) <= 1
    /\ \A i \in DOMAIN ops :
           ops[i].pc # "pending" =>
               \A j \in 1..(i - 1) : ops[j].pc \in TxSettled

\* the first operation rejected, the second is executing, a third one waits
QueueSerializedWitness ==
    /\ Len(ops) = 3
    /\ ops[1].pc = "rejected"
    /\ ops[2].pc \in TxRunning
    /\ ops[3].pc = "pending"

\* C8: the bodies of the queued operations begin in the order in which the
\* operations were enqueued, whatever the earlier ones did.
QueueFifo ==
    \A k \in DOMAIN began : began[k] = k

\* three operations have begun, after a fulfilled and a rejected one
QueueFifoWitness ==
    /\ began = <<1, 2, 3>>
    /\ ops[1].pc = "fulfilled"
    /\ ops[2].pc = "rejected"

\* C9: a queued operation that rejected did so with what its own body threw,
\* a settled operation has run its body, and an operation whose predecessors
\* have all settled, whichever way, can begin.
QueueFailureIsolated ==
    \A i \in DOMAIN ops :
        /\ ops[i].pc = "rejected" => ops[i].err.op = i
        /\ ops[i].pc = "fulfilled" => ops[i].err = NoTxErr
        /\ ops[i].pc \in TxSettled => i \in Range(began)
        /\ (ops[i].pc = "pending" /\ \A j \in 1..(i - 1) : ops[j].pc \in TxSettled)
               => ENABLED TxStart(i)

\* behind an operation that rejected at submission, the next one fulfilled
QueueFailureIsolatedWitness ==
    /\ Len(ops) >= 2
    /\ ops[1].pc = "rejected"
    /\ ops[1].err = TxErr(1, MsgSubmit)
    /\ ops[2].pc = "fulfilled"

\* C10: the step in which a queued operation rejects leaves the connection
\* state, the account handle, the EVM address and the Aztec address as they
\* were.
TxFailureKeepsSession ==
    [][\A i \in DOMAIN ops :
          (ops[i].pc # "rejected" /\ ops'[i].pc = "rejected") =>
              UNCHANGED <<connectionState, accountWallet, evmAddress, aztecAddress>>]_vars

\* a mint timed out (or a transfer failed at submission) on a connected
\* session, which is still connected
TxFailureKeepsSessionWitness ==
    \E i \in DOMAIN ops :
        /\ ops[i].pc = "rejected"
        /\ ops[i].err.message \in {MsgSubmit, MsgTxTimeout}
        /\ connectionState.status = "connected"
        /\ accountWallet # Null /\ evmAddress # Null /\ aztecAddress # Null

\* a contractAt call that registers and found the key of its address uncached
FirstUse(rec) ==
    rec.kind = "contractAt" /\ rec.register /\ ~rec.cached

\* C11: once a contractAt(addr) call with register = true has completed
\* successfully and no disconnect() has run since, every further contractAt
\* call for the same address, in whatever letter case it is written, resolves
\* without fetching an instance and without calling registerContract; the
\* call that found the address uncached fetched once and registered once, so
\* over the two calls the address is registered exactly once.
IdempotentRegistration ==
    \A i \in DOMAIN fcall :
        /\ (fcall[i].kind = "contractAt" /\ fcall[i].done) =>
               /\ fcall[i].pc = "resolved"
               /\ fcall[i].fetches = 0
               /\ fcall[i].registers = 0
        /\ (FirstUse(fcall[i]) /\ fcall[i].pc = "resolved") =>
               /\ fcall[i].fetches = 1
               /\ fcall[i].registers = 1

IdempotentRegistrationWitness ==
    \E i, j \in DOMAIN fcall :
        /\ i < j
        /\ FirstUse(fcall[i]) /\ fcall[i].pc = "resolved" /\ fcall[i].registers = 1
        /\ fcall[j].kind = "contractAt" /\ fcall[j].done /\ fcall[j].register
        /\ fcall[j].addr # fcall[i].addr
        /\ fcall[j].pc = "resolved" /\ fcall[j].registers = 0

\* C12: in every reachable state, whatever the interleaving of contractAt,
\* connect and disconnect, every address in the registration cache has been
\* registered with the execution context that is active now; the cache never
\* holds an address registered only with a context disconnect() discarded.
CacheBoundToActiveContext ==
    \A k \in registeredContracts :
        /\ accountWallet # Null
        /\ <<accountWallet, k>> \in walletContracts

\* C13: disconnect() empties the cache, so the first contractAt(addr) call
\* with register = true that is made after a disconnect() and a new successful
\* connect() fetches the instance and registers it again.
ReRegistersAfterDisconnect ==
    \A j \in DOMAIN fcall :
        ( /\ fcall[j].kind = "contractAt" /\ fcall[j].register
          /\ fcall[j].epoch >= 1 /\ fcall[j].est
          /\ \A i \in 1..(j - 1) :
                 \/ fcall[i].epoch < fcall[j].epoch
                 \/ AddressKey(fcall[i].addr) # AddressKey(fcall[j].addr) )
        => fcall[j].fetches = 1

\* this step is the one in which facade call i rejects with message m
FcRejects(i, m) ==
    /\ fcall[i].pc \in FcRunning
    /\ fcall'[i].pc = "rejected"
    /\ fcall'[i].err = m

\* C14: a contractAt call for an address that has no instance on the network
\* fails with the contract-not-found error, has called registerContract zero
\* times and adds nothing to the cache; a registerContract that fails leaves
\* the address uncached too, so a later registering call that finds it
\* uncached fetches the instance again.
FailedRegistrationNotCached ==
    [][/\ \A i \in DOMAIN fcall :
              /\ FcRejects(i, MsgTokenNotFound) =>
                     /\ fcall'[i].registers = 0
                     /\ registeredContracts' = registeredContracts
              /\ FcRejects(i, MsgRegisterContract) =>
                     registeredContracts' = registeredContracts
       /\ \A j \in DOMAIN fcall' \ DOMAIN fcall :
              ( /\ fcall'[j].kind = "contractAt" /\ fcall'[j].register
                /\ Missing("contractAt") = ""
                /\ AddressKey(fcall'[j].addr) \notin registeredContracts )
              => fcall'[j].fetches = 1]_vars

FailedRegistrationNotCachedWitness ==
    \E i, j \in DOMAIN fcall :
        /\ i < j
        /\ fcall[i].kind = "contractAt"
        /\ fcall[i].pc = "rejected" /\ fcall[i].err = MsgRegisterContract
        /\ fcall[i].registers = 1
        /\ fcall[j].kind = "contractAt"
        /\ AddressKey(fcall[j].addr) = AddressKey(fcall[i].addr)
        /\ ~fcall[j].cached /\ fcall[j].fetches = 1

NotConnectedErrors == {MsgNotConnected, MsgNoAccount}

\* this step is the one in which the body of queued operation i begins
BodyBegins(i) == ops[i].pc = "pending" /\ ops'[i].pc # "pending"

\* this step is the invocation of facade call j
FcInvoked(j) == j \in DOMAIN fcall' \ DOMAIN fcall

\* the session lacks something the operation reads before its first await: the
\* account handle, the node client (all but syncPrivateState), the account
\* address (getPublicBalance, sendPublicTransfer, mintTokens)
NoActiveAccount(kind) ==
    \/ kind \in {"contractAt", "balance", "transfer"} /\ (accountWallet = Null \/ node = Null)
    \/ kind = "sync" /\ accountWallet = Null
    \/ kind \in {"balance", "transfer"} /\ aztecAddress = Null
    \/ kind = "mint" /\ (node = Null \/ aztecAddress = Null \/ testWalletInstance = Null)

\* the operation failed at its check: nothing fetched, registered or submitted,
\* the cache as it was
FcFailedAtCheck(j) ==
    /\ fcall'[j].pc = "rejected" /\ fcall'[j].err \in NotConnectedErrors
    /\ fcall'[j].fetches = 0 /\ fcall'[j].registers = 0
    /\ registeredContracts' = registeredContracts

TxFailedAtCheck(i) ==
    /\ ops'[i].pc = "rejected" /\ ops'[i].err.message \in NotConnectedErrors
    /\ registeredContracts' = registeredContracts

\* C15 as stated: an operation that needs an active account (contractAt,
\* syncPrivateState, getPublicBalance, mintTokens, sendPublicTransfer) and is
\* invoked while no connect() has completed since construction or since the
\* last disconnect() fails with a not-connected error, without any network
\* call, submission or cache change.
NotConnectedBeforeConnectCompletes ==
    [][/\ \A j \in 1..MaxFacadeCalls :
              (FcInvoked(j) /\ established = {}) => FcFailedAtCheck(j)
       /\ \A i \in DOMAIN ops :
              (BodyBegins(i) /\ established = {}) => TxFailedAtCheck(i)]_vars

\* C15, amended: such an operation fails with a not-connected error, without
\* any network call, submission or cache change, when at the moment its body
\* starts the session holds no account handle (or lacks the node client or the
\* account address the operation reads).
NotConnectedWithoutHandle ==
    [][/\ \A j \in 1..MaxFacadeCalls :
              (FcInvoked(j) /\ NoActiveAccount(fcall'[j].kind)) => FcFailedAtCheck(j)
       /\ \A i \in DOMAIN ops :
              (BodyBegins(i) /\ NoActiveAccount(ops[i].kind)) => TxFailedAtCheck(i)]_vars

\* after a disconnect(), a facade call and a queued operation have both failed
\* at their check
NotConnectedWithoutHandleWitness ==
    /\ budget.disconnect < MaxDisconnects
    /\ \E j \in DOMAIN fcall :
           /\ fcall[j].epoch >= 1 /\ fcall[j].kind = "contractAt"
           /\ fcall[j].pc = "rejected" /\ fcall[j].err = MsgNotConnected
    /\ \E i \in DOMAIN ops :
           /\ ops[i].pc = "rejected" /\ ops[i].err.message \in NotConnectedErrors
    /\ accountWallet = Null

\* this connect() was rejected because the proving backend failed to start
BackendInitFailed(c) ==
    call[c].pc = "rejected" /\ call[c].err = Err(MsgBbFailed)

\* C16 as stated: whenever the first initialization attempt of a connect()
\* fails, exactly one further attempt is made, with the non-worker
\* configuration; connect() fails because of backend initialization only after
\* exactly two attempts.
FallbackAlwaysTried ==
    \A c \in Calls :
        /\ BackendInitFailed(c) => call[c].counts.bbInit = 2
        /\ call[c].counts.bbInit <= 2
        /\ call[c].counts.bbInit = 2 => call[c].bbTried[2] = "wasm"

\* C16, amended: the further attempt is made exactly when the configured
\* backend kind is the worker one; then connect() fails because of backend
\* initialization only after two attempts, the second with the non-worker
\* configuration. With the non-worker kind or no kind configured, the first
\* failure fails connect() after that single attempt.
FallbackForWorkerBackend ==
    \A c \in Calls :
        /\ BackendInitFailed(c) =>
               call[c].counts.bbInit = IF cfg.bbBackend = "wasm-worker" THEN 2 ELSE 1
        /\ call[c].counts.bbInit <= 2
        /\ call[c].counts.bbInit = 2 =>
               /\ cfg.bbBackend = "wasm-worker"
               /\ call[c].bbTried = <<"wasm-worker", "wasm">>
        /\ call[c].pc = "bbRetry" => call[c].counts.bbInit = 2

\* both attempts of a connect() failed and it was rejected
FallbackForWorkerBackendWitness ==
    \E c \in Calls :
        /\ BackendInitFailed(c)
        /\ call[c].counts.bbInit = 2
        /\ call[c].bbTried = <<"wasm-worker", "wasm">>
        /\ connectionState = ConnectionState("disconnected", MsgBbFailed)

\* an initSingleton call issued by connect() call c has resolved
BackendInitSucceeded(c) ==
    /\ call[c].counts.bbInit >= 1
    /\ call[c].pc \notin {"idle", "bbInit", "bbRetry"}
    /\ ~BackendInitFailed(c)

\* this step issues an initSingleton call on behalf of connect() call c
BackendInitIssued(c) ==
    /\ call'[c].pc \in {"bbInit", "bbRetry"}
    /\ call'[c].pc # call[c].pc

\* C17: the proving backend is initialized at most once per page lifetime: at
\* most one initialization call completes successfully, and no initialization
\* call is issued after one has succeeded.
BackendInitializedOnce ==
    [][/\ Cardinality({c \in Calls : BackendInitSucceeded(c)'}) <= 1
       /\ \A c \in Calls :
              BackendInitIssued(c) => \A d \in Calls : ~BackendInitSucceeded(d)]_vars

\* the state that was current when n states had been published
StateAt(n) == IF n = 0 THEN DisconnectedInit ELSE published[n]

\* C18: a listener passed to onStateChange is called exactly once at
\* subscription time, with the state current at that moment, and with no
\* state published before it subscribed; nobody else is called and nothing is
\* published by the subscription.
LateJoinOnly ==
    [][budget'.subscribe < budget.subscribe =>
           /\ \E l \in stateListeners' :
                  received' = [received EXCEPT ![l] = <<connectionState>>]
           /\ published' = published
           /\ connectionState' = connectionState]_vars

\* a listener joined while the account was being registered and has been
\* called with that state only
LateJoinOnlyWitness ==
    \E l \in stateListeners :
        /\ subscribedAt[l] >= 3
        /\ connectionState.status = "registering"
        /\ received[l] = <<connectionState>>

\* C19: every transition is delivered to every listener subscribed at that
\* moment, within the transition, in transition order: what a subscribed
\* listener has received is the state it joined at followed by exactly the
\* states published since, so all listeners observe the same sequence from
\* their subscription on and the last state each one received is the current
\* state.
TransitionsDelivered ==
    \A l \in stateListeners :
        /\ received[l] = <<StateAt(subscribedAt[l])>> \o
                             SubSeq(published, subscribedAt[l] + 1, Len(published))
        /\ Last(received[l]) = connectionState
        /\ delivered[l] = connectionState

\* two listeners that joined at different moments have followed a connection
\* to its end
TransitionsDeliveredWitness ==
    /\ stateListeners = Listeners
    /\ \E l, m \in Listeners :
           /\ subscribedAt[l] < subscribedAt[m]
           /\ Len(received[m]) >= 3
    /\ connectionState.status = "connected"

\* runs of the fee-sponsor resolution routine issued by the connect() calls on
\* record, account setup and the facade's connect() counted together
FeeResolutions ==
    LET sum[S \in SUBSET Calls] ==
            IF S = {} THEN 0
            ELSE LET c == CHOOSE d \in S : TRUE
                 IN  call[c].counts.feeResolve + sum[S \ {c}]
    IN  sum[Calls]

\* C20: in sponsored fee mode the fee-sponsor resolution routine is run
\* exactly once per session, account setup and the facade's connect() counted
\* together, and after a successful connect() getFeePaymentMethod() is
\* non-null; in fee mode none it is null after any sequence of operations.
FeeResolvedOnce ==
    /\ FeeResolutions <= 1
    /\ cfg.feeMode = "none" => sdkFeePaymentMethod = Null /\ FeeResolutions = 0
    /\ (cfg.feeMode = "sponsored" /\ \E c \in Calls : call[c].pc = "resolved") =>
           sdkFeePaymentMethod # Null

\* queued operation i has submitted its transaction: send() and getTxHash
\* have returned
TxSubmitted(i) ==
    \/ ops[i].kind = "mint" /\ ops[i].pc \in {"wait", "fulfilled"}
    \/ ops[i].kind = "mint" /\ ops[i].pc = "rejected" /\ ops[i].err.message = MsgTxTimeout
    \/ ops[i].kind = "transfer" /\ ops[i].pc = "fulfilled"

\* C21: every on-network transaction submitted by the system (the account
\* deployment of connect(), every transfer or mint submitted through the
\* facade) is preceded by a signer approval obtained for that transaction:
\* a connect() has asked the signer once for the key derivation and once more
\* for each deployment it sent, and a queued operation that has submitted its
\* transaction has asked the signer for it.
SignerApprovesEveryTransaction ==
    /\ \A c \in Calls :
           call[c].counts.personalSign >= 1 + call[c].counts.deploySend
               \/ call[c].counts.deploySend = 0
    /\ \A i \in DOMAIN ops :
           TxSubmitted(i) => ops[i].personalSign >= 1

\* the fields of a DerivedKeys value
EvmAddressOf(k) == k[4]
SignatureOf(k) == k[5]
\* the message a signature was given for
SignedMessage(sig) == sig[3]
\* secret key, salt and signing key of a DerivedKeys value
KeyTriple(k) == <<SecretKey(k), Salt(k), SigningPrivateKey(k)>>

ToLowerCase(a) == <<a[1], IF a[2] = "A" THEN "a" ELSE a[2], a[3]>>

\* C23: the message submitted to the signer embeds the source address
\* lower-cased: two source addresses that differ only in letter case give the
\* identical message to sign, hence (deterministic signer) the identical key
\* set and account address.
DerivationIgnoresLetterCase ==
    \A i, j \in DOMAIN derivations :
        ( /\ signer.deterministic
          /\ ToLowerCase(EvmAddressOf(derivations[i])) =
                 ToLowerCase(EvmAddressOf(derivations[j])) )
        => /\ SignedMessage(SignatureOf(derivations[i])) =
                  SignedMessage(SignatureOf(derivations[j]))
           /\ KeyTriple(derivations[i]) = KeyTriple(derivations[j])
           /\ AccountAddress(derivations[i]) = AccountAddress(derivations[j])

\* C24: a connect() made with no EVM signer present, or answered with an
\* empty account list, rejects having issued no signature request, no
\* node-client connection and no deployment; a deriveAztecKeys call made with
\* no signer present rejects having issued no signature request.
NoSignerNoRequests ==
    /\ \A c \in Calls :
          (~hasEthereum \/ call[c].err = Err(MsgNoAccounts)) =>
              /\ call[c].pc \in {"idle", "rejected"}
              /\ call[c].counts.personalSign = 0
              /\ call[c].counts.nodeClient = 0
              /\ call[c].counts.deploySend = 0
    /\ ~hasEthereum =>
          /\ deriveCall.pc \in {"idle", "rejected"}
          /\ deriveCall.personalSign = 0

\* a connect() and a deriveAztecKeys call have both rejected for want of a
\* signer
NoSignerNoRequestsWitness ==
    /\ ~hasEthereum
    /\ call[1].pc = "rejected" /\ call[1].err = Err(MsgNoMetaMask)
    /\ deriveCall.pc = "rejected" /\ deriveCall.err = Err(MsgNoMetaMask)

\* the connect() call went through the whole flow, not the cached-handle return
FromFreshSession(c) == call[c].pc = "resolved" /\ call[c].trace # <<>>

\* C25: a connect() that resolves from a fresh session has issued exactly one
\* request-accounts call and exactly one signature request, the request for
\* accounts first, and the signature request before its first node-client
\* call; a connect() rejected by the signer has made no node-client call.
SignsOnceBeforeNetwork ==
    \A c \in Calls :
       /\ FromFreshSession(c) =>
             /\ call[c].counts.requestAccounts = 1
             /\ call[c].counts.personalSign = 1
             /\ SubSeq(call[c].io, 1, 3) = <<"requestAccounts", "personalSign", "nodeClient">>
       /\ (call[c].pc = "rejected" /\ call[c].err = Err(MsgUserRejected)) =>
             call[c].counts.nodeClient = 0

\* a connect() resolved from a fresh session after an earlier one was
\* declined at the signature request
SignsOnceBeforeNetworkWitness ==
    /\ FromFreshSession(2)
    /\ call[1].pc = "rejected" /\ call[1].err = Err(MsgUserRejected)
    /\ call[1].counts.personalSign = 1

\* this step is the one in which call c submits a deployment
SubmitsDeployment(c) == call'[c].counts.deploySend > call[c].counts.deploySend

SdkState ==
    <<connectionState, node, accountWallet, testWalletInstance, derivedKeys, evmAddress,
      aztecAddress, established, registeredContracts, txQueue, ops>>

FirstAt(io, f) ==
    IF \E k \in DOMAIN io : io[k] = f
    THEN CHOOSE k \in DOMAIN io : io[k] = f /\ \A j \in 1..(k - 1) : io[j] # f
    ELSE 0

\* C28: a deployment is sent with the zero address as sender; in sponsored
\* mode its fee entry is the fee-payment method of the session, resolved
\* before the deployment was sent (by this connect() or by an earlier one),
\* and in mode none it has no fee entry.
DeploymentFeeOptions ==
    \A c \in Calls :
       call[c].deployOpts # Null =>
          /\ call[c].deployOpts[1].from = AztecAddressZero
          /\ cfg.feeMode = "sponsored" =>
                /\ call[c].deployOpts[1].fee = SponsoredFeePaymentMethod
                /\ call[c].deployOpts[1].fee = feePaymentMethod
                /\ \/ call[c].counts.feeResolve = 0
                   \/ FirstAt(call[c].io, "feeResolve") < FirstAt(call[c].io, "deploySend")
          /\ cfg.feeMode = "none" =>
                /\ call[c].deployOpts[1].fee = Null
                /\ call[c].counts.feeResolve = 0

\* a connect() in sponsored mode that resolved the fee method itself and then
\* sent the deployment
DeploymentFeeOptionsWitness ==
    /\ cfg.feeMode = "sponsored"
    /\ call[1].deployOpts # Null
    /\ call[1].counts.feeResolve = 1
    /\ call[1].counts.deploySend = 1

\* the retry of the backend initialization of call c has been issued
RetryIssued(c) == Len(call[c].bbThreads) = 2

Enqueued(i) == i <= Len(ops)

\* C30: when the handlers of settled promises are run and the awaits inside
\* the bodies settle, every operation passed to enqueueTx begins its body and
\* its promise settles, whether it was enqueued behind a running operation or
\* behind one that failed.
QueueProgress ==
    \A i \in 1..MaxEnqueues :
       Enqueued(i) ~> (Enqueued(i) /\ i \in Range(began) /\ ops[i].pc \in TxSettled)

\* three operations have begun and settled; the first one rejected and the
\* last one fulfilled
QueueProgressWitness ==
    /\ Len(ops) = 3
    /\ began = <<1, 2, 3>>
    /\ ops[1].pc = "rejected"
    /\ ops[2].pc \in TxSettled
    /\ ops[3].pc = "fulfilled"

\* this step is the one in which call c settles
Settles(c) == call'[c].pc \in Settled /\ (call[c].pc \in InFlight \/ Invoked(c))

\* every connect() call in progress settles
ConnectSettles ==
    \A c \in Calls : (call[c].pc \in InFlight) ~> (call[c].pc \in Settled)

\* the status a connect() call leaves when it settles is connected if it
\* resolved and disconnected if it rejected
SettledStatus ==
    [][\A c \in Calls :
          Settles(c) =>
             connectionState'.status =
                 IF call'[c].pc = "resolved" THEN "connected" ELSE "disconnected"]_vars

\* C31: provided every external call eventually returns or fails, every
\* connect() call settles, and the status it leaves when it settles is
\* connected if it resolved and disconnected if it rejected.
ConnectTerminates == ConnectSettles /\ SettledStatus

\* isConnected(), line 450
IsConnected == connectionState.status = "connected"

\* C32: whenever isConnected() is true, getWallet(), getNode(),
\* getEvmAddress() and getAztecAddress() all return non-null values.
ConnectedAccessorsNonNull ==
    IsConnected =>
       /\ accountWallet # Null
       /\ node # Null
       /\ evmAddress # Null
       /\ aztecAddress # Null

\* exactly two connect() calls have been made, the second while the first was
\* in progress
TwoOverlappingCalls == budget.connect = MaxConnects - 2 /\ call[2].pc # "idle"

\* C33: two overlapping connect() calls together issue at most one signature
\* request and at most one deployment, and when both have resolved they have
\* resolved with the same account handle.
SingleFlightConnect ==
    TwoOverlappingCalls =>
       /\ call[1].counts.personalSign + call[2].counts.personalSign <= 1
       /\ call[1].counts.deploySend + call[2].counts.deploySend <= 1
       /\ (call[1].pc = "resolved" /\ call[2].pc = "resolved") =>
              call[1].result = call[2].result

\* this step calls setState
Publishes == connectionState' # connectionState

\* once connected is published, the next status published is disconnected
ConnectedThenDisconnected ==
    [][(IsConnected /\ Publishes) => connectionState'.status = "disconnected"]_vars

\* a cached account handle never coexists with the status disconnected
NoHandleWhileDisconnected ==
    [](accountWallet # Null => connectionState.status # "disconnected")

\* C34: once the status connected has been published, the only status
\* published next is disconnected, and a cached account handle never
\* coexists with the status disconnected.
ConnectedIsFinal == ConnectedThenDisconnected /\ NoHandleWhileDisconnected

\* C35: after disconnect() has run and until connect() is called again, the
\* status is disconnected and the account accessors return null, and a
\* connect() that was in progress when disconnect() ran has sent no further
\* deployment.
DisconnectStops ==
    \A c \in Calls :
       call[c].interrupted # Null =>
          /\ connectionState.status = "disconnected"
          /\ accountWallet = Null /\ node = Null
          /\ evmAddress = Null /\ aztecAddress = Null
          /\ call[c].counts.deploySend = call[c].interrupted[1]

\* the session fields of a freshly constructed VizardWallet (lines 56-61)
FreshSession ==
    /\ evmAddress = Null /\ derivedKeys = Null /\ node = Null
    /\ accountWallet = Null /\ aztecAddress = Null

\* C36: when a connect() call rejects, the EVM address, the derived keys,
\* the node client, the account handle and the account address are null, as
\* in a freshly constructed session.
RejectLeavesNoState ==
    [][\A c \in Calls : Rejects(c) => FreshSession']_vars

\* C37: in sponsored mode, the TestWallet a connect() has resolved with has
\* had the fee-sponsor contract and sender registered with it.
SponsorRegisteredOnEveryContext ==
    \A c \in Calls :
       (cfg.feeMode = "sponsored" /\ call[c].pc = "resolved") =>
           call[c].result \in fpcRegistered

\* C38: within one session, the contractAt(addr, register = true) calls for
\* one address invoke registerContract at most once between them, however
\* they interleave.
RegisterContractOnce ==
    \A i, j \in DOMAIN fcall :
       (/\ i # j
        /\ fcall[i].kind = "contractAt" /\ fcall[j].kind = "contractAt"
        /\ fcall[i].register /\ fcall[j].register
        /\ CacheKey(fcall[i].addr) = CacheKey(fcall[j].addr)
        /\ fcall[i].epoch = fcall[j].epoch
        /\ fcall[i].err = "" /\ fcall[j].err = "")
       => fcall[i].registers + fcall[j].registers <= 1

\* a listener that was subscribed and whose unsubscribe function has been
\* called since
Unsubscribed(l) == received[l] # <<>> /\ delivered[l] = NotDelivered

\* C39: once the unsubscribe function onStateChange returned has been called,
\* the listener is not invoked again (until it is passed to onStateChange
\* again); the call removes that listener only and invokes nobody, and the
\* listeners that remain are called with every later transition.
UnsubscribeStopsDelivery ==
    [][/\ \A l \in Listeners :
              (Unsubscribed(l) /\ budget'.subscribe = budget.subscribe) =>
                  /\ received'[l] = received[l]
                  /\ delivered'[l] = NotDelivered
                  /\ l \notin stateListeners'
       /\ \A l \in Listeners :
              (~Unsubscribed(l) /\ Unsubscribed(l)') =>
                  /\ stateListeners' = stateListeners \ {l}
                  /\ received' = received
                  /\ published' = published
       /\ \A m \in stateListeners :
              ((\E l \in Listeners : Unsubscribed(l)) /\ published' # published) =>
                  /\ m \in stateListeners'
                  /\ received'[m] = Append(received[m], connectionState')
                  /\ delivered'[m] = connectionState']_vars

\* one listener left while the connection was in progress and has not been
\* called with the states published since; the other has followed the
\* connection to its end
UnsubscribeStopsDeliveryWitness ==
    \E l, m \in Listeners :
        /\ Unsubscribed(l)
        /\ Last(received[l]).status \notin {"connected", "disconnected"}
        /\ m \in stateListeners
        /\ subscribedAt[m] <= subscribedAt[l]
        /\ Len(received[m]) > Len(received[l]) + 2
        /\ connectionState.status = "connected"
        /\ Last(received[m]) = connectionState

\* the state of a session: wallet fields, published state, listeners, fee
\* method, registration cache, queue, registrations held by the wallets
sessionVars == <<walletVars, connectionState, listenerVars, delivered, sdkFeePaymentMethod,
                 queueVars, walletContracts, completedKeys, fpcRegistered, established,
                 call, nextHandle>>

\* the facade call the step invokes, if it is a contractAt with register =
\* false or a syncPrivateState
InertCall(i) ==
    \/ fcall'[i].kind = "sync"
    \/ fcall'[i].kind = "contractAt" /\ ~fcall'[i].register

\* C40: contractAt(addr, register = false) fetches no contract instance, calls
\* no registerContract and leaves the registration cache as it is, whether or
\* not the address is cached; syncPrivateState on a connected session returns
\* without changing any session state, however often it is called. Both
\* settle within their invocation.
NoRegisterAndSyncAreInert ==
    /\ [][\A i \in DOMAIN fcall' \ DOMAIN fcall :
              InertCall(i) =>
                  /\ UNCHANGED sessionVars
                  /\ fcall'[i].pc \in {"resolved", "rejected"}
                  /\ fcall'[i].fetches = 0 /\ fcall'[i].registers = 0
                  /\ accountWallet # Null /\ fcall'[i].kind = "sync"
                         => fcall'[i].pc = "resolved"
                  /\ fcall'[i].pc = "rejected" => Missing(fcall'[i].kind) # ""]_vars
    /\ [](\A i \in DOMAIN fcall :
              (fcall[i].kind = "sync" \/ ~fcall[i].register) =>
                  /\ fcall[i].fetches = 0 /\ fcall[i].registers = 0
                  /\ fcall[i].pc \in {"resolved", "rejected"})

\* on a connected session whose cache does not hold the token address, a
\* contractAt with register = false and a syncPrivateState have both returned
\* and the cache is still empty
NoRegisterAndSyncAreInertWitness ==
    /\ connectionState.status = "connected"
    /\ registeredContracts = {}
    /\ walletContracts = {}
    /\ \E i, j \in DOMAIN fcall :
           /\ fcall[i].kind = "contractAt" /\ ~fcall[i].register
           /\ ~fcall[i].cached /\ fcall[i].pc = "resolved"
           /\ fcall[j].kind = "sync" /\ fcall[j].pc = "resolved"
====
